---------------------------- MODULE Spec2Model ----------------------------
(***************************************************************************)
(* A model of the conversion orchestrator of syncfm.ts (class SyncFM in    *)
(* src/src/index.ts), of its merge engine (src/src/squish.ts), of its      *)
(* error classifier (src/src/types/errors.ts) and of the store access      *)
(* layer (class Database in src/src/database.ts).                          *)
(*                                                                         *)
(* Entities (SyncFMSong, ...) are functions from field names to values;    *)
(* a field whose value is undefined in the program is absent from the      *)
(* DOMAIN.  Maps (externalIds, conversionErrors, conversionWarnings) are   *)
(* functions with a finite domain of keys.  Error messages are sequences   *)
(* of words.  Time is counted in units of the deferred-retry cooldown.     *)
(***************************************************************************)
EXTENDS Integers, Sequences, FiniteSets, TLC

VARIABLES
    db,          \* the songs table: syncId -> stored row or NoRow
    now,         \* Date.now(), in cooldown units
    flights,     \* SyncFM.conversionFlights: flight key -> TRUE while a promise is registered
    fl,          \* the frame of the running executeUnifiedConvertWithRetry (one per flight)
    svc,         \* the outstanding invokeServiceMethod calls of the running frame
    callers,     \* the callers of convertSong: what each awaits or has received
    hist,        \* history of the running flight (counters the claims are about)
    locks,       \* Database.entityLocks, as the queue of upserts per lock key
    ups,         \* the upsertEntity calls of the lock model
    calc         \* the evaluation of a pure function: its inputs and results

vars == <<db, now, flights, fl, svc, callers, hist, locks, ups, calc>>

-----------------------------------------------------------------------------
(* Bounds of the model. *)

\* callers of convertSong that may be active at the same time
NumCallers == 2
\* the clock stops advancing here
MaxTime == 1
\* concurrent upsertEntity calls of the lock model
NumUpserts == 3

\* conversions that the instance runs to completion
MaxFlights == 1

\* upserts of the song by other processes
MaxExternal == 1

-----------------------------------------------------------------------------
(* Generic helpers for entities and maps. *)

EmptyMap == <<>>

Has(r, f) == f \in DOMAIN r

\* F(value), with value computed once
With(value, F(_)) == CHOOSE r \in {F(x) : x \in {value}} : TRUE

SetField(r, f, v) ==
    With(r, LAMBDA x : [k \in (DOMAIN x) \cup {f} |-> IF k = f THEN v ELSE x[k]])

DelField(r, f) == With(r, LAMBDA x : [k \in (DOMAIN x) \ {f} |-> x[k]])

\* { ...a, ...b }
Spread(a, b) ==
    With(a, LAMBDA x :
       With(b, LAMBDA y :
          [k \in (DOMAIN x) \cup (DOMAIN y) |-> IF k \in DOMAIN y THEN y[k] ELSE x[k]]))

Restrict(m, S) == With(m, LAMBDA x : [k \in (DOMAIN x) \cap S |-> x[k]])

\* r.f ?? d
GetOr(r, f, d) == IF f \in DOMAIN r THEN r[f] ELSE d

\* the two ways a call ends: it returns a value or it throws an error
Returned(value) == [kind |-> "return", value |-> value]

Thrown(error) == [kind |-> "throw", value |-> error]

-----------------------------------------------------------------------------
(* Catalogs. *)

SUPPORTED_SERVICES == <<"applemusic", "spotify", "ytmusic">>

ServiceNames == {SUPPORTED_SERVICES[i] : i \in 1..Len(SUPPORTED_SERVICES)}

\* the key of a catalog in externalIds (the adapters write these keys)
SyncFMExternalIdMapToDesiredService ==
    [s \in ServiceNames |->
        CASE s = "applemusic" -> "AppleMusic"
          [] s = "spotify" -> "Spotify"
          [] s = "ytmusic" -> "YouTube"]

ExternalIdKeys == {SyncFMExternalIdMapToDesiredService[s] : s \in ServiceNames}

\* Boolean(id) of a value of externalIds
Truthy(id) == id # ""

\* item.externalIds?.[key] is truthy
HasExternalId(item, key) ==
    /\ Has(item, "externalIds")
    /\ key \in DOMAIN item["externalIds"]
    /\ Truthy(item["externalIds"][key])

-----------------------------------------------------------------------------
(* Error classifier and retry policy: src/src/types/errors.ts *)

\* String.prototype.toLowerCase, word by word
toLowerCase(msg) ==
    [i \in 1..Len(msg) |->
        CASE msg[i] = "No" -> "no"
          [] msg[i] = "Not" -> "not"
          [] msg[i] = "Missing" -> "missing"
          [] msg[i] = "Network" -> "network"
          [] msg[i] = "Rate" -> "rate"
          [] msg[i] = "Invalid" -> "invalid"
          [] msg[i] = "ID" -> "id"
          [] OTHER -> msg[i]]

\* String.prototype.includes on whole words
includes(msg, pat) ==
    \E i \in 1..(Len(msg) - Len(pat) + 1) : SubSeq(msg, i, i + Len(pat) - 1) = pat

\* a classifier that looks for the network keywords before all others
categorizeNetworkFirst(message) ==
    LET errorMessage == toLowerCase(message) IN
    IF \/ includes(errorMessage, <<"network">>)
       \/ includes(errorMessage, <<"timeout">>)
       \/ includes(errorMessage, <<"econnrefused">>)
       \/ includes(errorMessage, <<"fetch", "failed">>)
    THEN [errorType |-> "network", retryable |-> TRUE]
    ELSE IF \/ includes(errorMessage, <<"not", "found">>)
            \/ includes(errorMessage, <<"no", "result">>)
            \/ includes(errorMessage, <<"no", "song", "found">>)
            \/ includes(errorMessage, <<"no", "artist", "found">>)
            \/ includes(errorMessage, <<"no", "album", "found">>)
    THEN [errorType |-> "not_found", retryable |-> FALSE]
    ELSE IF \/ includes(errorMessage, <<"rate", "limit">>)
            \/ includes(errorMessage, <<"too", "many", "requests">>)
            \/ includes(errorMessage, <<"429">>)
    THEN [errorType |-> "rate_limit", retryable |-> TRUE]
    ELSE IF \/ includes(errorMessage, <<"invalid">>)
            \/ includes(errorMessage, <<"missing">>)
            \/ includes(errorMessage, <<"required">>)
    THEN [errorType |-> "invalid_data", retryable |-> FALSE]
    ELSE [errorType |-> "unknown", retryable |-> TRUE]

categorizeError(message) ==
    LET errorMessage == toLowerCase(message) IN
    IF \/ includes(errorMessage, <<"not", "found">>)
       \/ includes(errorMessage, <<"no", "result">>)
       \/ includes(errorMessage, <<"no", "song", "found">>)
       \/ includes(errorMessage, <<"no", "artist", "found">>)
       \/ includes(errorMessage, <<"no", "album", "found">>)
    THEN [errorType |-> "not_found", retryable |-> FALSE]
    ELSE IF \/ includes(errorMessage, <<"rate", "limit">>)
            \/ includes(errorMessage, <<"too", "many", "requests">>)
            \/ includes(errorMessage, <<"429">>)
    THEN [errorType |-> "rate_limit", retryable |-> TRUE]
    ELSE IF \/ includes(errorMessage, <<"network">>)
            \/ includes(errorMessage, <<"timeout">>)
            \/ includes(errorMessage, <<"econnrefused">>)
            \/ includes(errorMessage, <<"fetch", "failed">>)
    THEN [errorType |-> "network", retryable |-> TRUE]
    ELSE IF \/ includes(errorMessage, <<"invalid">>)
            \/ includes(errorMessage, <<"missing">>)
            \/ includes(errorMessage, <<"required">>)
    THEN [errorType |-> "invalid_data", retryable |-> FALSE]
    ELSE [errorType |-> "unknown", retryable |-> TRUE]

MAX_ATTEMPTS == 3

\* 5 * 60 * 1000 ms, the unit of the clock
MIN_RETRY_INTERVAL_MS == 1

\* a retry policy without the cooldown
retryWithoutCooldown(history, t) ==
    IF ~history["retryable"] THEN FALSE
    ELSE IF history["attempts"] >= MAX_ATTEMPTS THEN FALSE
    ELSE TRUE

\* shouldRetryService(history) for a history that is present, at time t
shouldRetryService(history, t) ==
    IF ~history["retryable"] THEN FALSE
    ELSE IF history["attempts"] >= MAX_ATTEMPTS THEN FALSE
    ELSE IF t - history["lastAttempt"] < MIN_RETRY_INTERVAL_MS THEN FALSE
    ELSE TRUE

\* an immediate-retry rule that retries a rate-limited search as well
retryRateLimited(errorType, attemptNumber) ==
    IF errorType = "not_found" \/ errorType = "invalid_data" THEN FALSE
    ELSE IF attemptNumber < 2 THEN TRUE
    ELSE FALSE

shouldRetryImmediately(errorType, attemptNumber) ==
    IF errorType = "not_found" \/ errorType = "invalid_data" THEN FALSE
    ELSE IF errorType = "rate_limit" THEN FALSE
    ELSE IF (errorType = "network" \/ errorType = "unknown") /\ attemptNumber < 2 THEN TRUE
    ELSE FALSE

-----------------------------------------------------------------------------
(* Merge engine: src/src/squish.ts *)

RECURSIVE DedupFrom(_, _)
DedupFrom(seq, seen) ==
    IF seq = <<>> THEN <<>>
    ELSE IF Head(seq) \in seen THEN DedupFrom(Tail(seq), seen)
    ELSE <<Head(seq)>> \o DedupFrom(Tail(seq), seen \cup {Head(seq)})

\* an array that keeps its duplicates
ArrayConcat(seq) == seq

\* Array.from(new Set(seq))
ArrayFromSet(seq) == DedupFrom(seq, {})

\* Array.from(combinedMap.values()) after combinedMap.set(item[uniqueKey], item) for
\* every item of seq that has a truthy uniqueKey
CombinedMapValues(seq, uniqueKey) ==
    LET keyed == SelectSeq(seq, LAMBDA item : Has(item, uniqueKey) /\ item[uniqueKey] # "")
        keys == ArrayFromSet([i \in 1..Len(keyed) |-> keyed[i][uniqueKey]])
        last(k) == CHOOSE i \in 1..Len(keyed) :
                      /\ keyed[i][uniqueKey] = k
                      /\ \A j \in (i + 1)..Len(keyed) : keyed[j][uniqueKey] # k
    IN [n \in 1..Len(keys) |-> keyed[last(keys[n])]]

\* an image rule under which the incoming URL always wins
imageUrlNewest(hasExisting, existingUrl, newUrl) == newUrl

\* an image rule under which a stored URL is never replaced
imageUrlKeepStored(hasExisting, existingUrl, newUrl) ==
    IF ~hasExisting \/ existingUrl = <<>> THEN newUrl ELSE existingUrl

\* a URL is a sequence of words; "" is the empty sequence
imageUrlMerge(hasExisting, existingUrl, newUrl) ==
    IF ~hasExisting \/ existingUrl = <<>> THEN newUrl
    ELSE IF newUrl = <<>> THEN existingUrl
    ELSE LET isExistingGoogle == includes(existingUrl, <<"googleusercontent.com">>)
             isNewGoogle == includes(newUrl, <<"googleusercontent.com">>)
         IN IF isExistingGoogle /\ ~isNewGoogle THEN newUrl
            ELSE IF ~isExistingGoogle /\ isNewGoogle THEN existingUrl
            ELSE newUrl

songMergeConfig ==
    [title |-> [strategy |-> "keep_existing"],
     artists |-> [strategy |-> "combine_unique_primitives"],
     album |-> [strategy |-> "keep_existing"],
     releaseDate |-> [strategy |-> "keep_existing"],
     imageUrl |-> [strategy |-> "custom"],
     externalIds |-> [strategy |-> "merge_objects"],
     previouslyFailedServices |-> [strategy |-> "combine_unique_primitives"],
     explicit |-> [strategy |-> "prefer_new"]]

artistMergeConfig ==
    [name |-> [strategy |-> "keep_existing"],
     imageUrl |-> [strategy |-> "custom"],
     externalIds |-> [strategy |-> "merge_objects"],
     tracks |-> [strategy |-> "combine_unique_objects", uniqueKey |-> "syncId"],
     albums |-> [strategy |-> "combine_unique_objects", uniqueKey |-> "syncId"],
     previouslyFailedServices |-> [strategy |-> "combine_unique_primitives"]]

albumMergeConfig ==
    [title |-> [strategy |-> "keep_existing"],
     artists |-> [strategy |-> "combine_unique_primitives"],
     releaseDate |-> [strategy |-> "keep_existing"],
     imageUrl |-> [strategy |-> "custom"],
     externalIds |-> [strategy |-> "merge_objects"],
     songs |-> [strategy |-> "combine_unique_objects", uniqueKey |-> "syncId"],
     previouslyFailedServices |-> [strategy |-> "combine_unique_primitives"]]

\* a merge of maps in which the existing keys override the incoming ones
keepExistingObjects(hasExisting, existingValue, newValue) ==
    IF hasExisting THEN Spread(newValue, existingValue) ELSE newValue

\* case 'merge_objects' of mergeData; existingValue is read only when hasExisting
mergeObjects(hasExisting, existingValue, newValue) ==
    IF hasExisting THEN Spread(existingValue, newValue) ELSE newValue

\* an iteration that takes the incoming value whatever the strategy
overwriteField(fieldConfig, existing, key, newValue) == newValue

\* one iteration of the loop of mergeData, for a key that has a strategy and a
\* defined incoming value
mergeField(fieldConfig, existing, key, newValue) ==
    LET hasExisting == Has(existing, key) IN
    CASE fieldConfig["strategy"] = "overwrite" -> newValue
      [] fieldConfig["strategy"] = "keep_existing" ->
            IF hasExisting THEN existing[key] ELSE newValue
      [] fieldConfig["strategy"] = "prefer_new" -> newValue
      [] fieldConfig["strategy"] = "merge_objects" ->
            mergeObjects(hasExisting, IF hasExisting THEN existing[key] ELSE EmptyMap, newValue)
      [] fieldConfig["strategy"] = "combine_unique_primitives" ->
            IF hasExisting THEN ArrayFromSet(existing[key] \o newValue) ELSE newValue
      [] fieldConfig["strategy"] = "combine_unique_objects" ->
            IF hasExisting /\ Has(fieldConfig, "uniqueKey")
            THEN CombinedMapValues(existing[key] \o newValue, fieldConfig["uniqueKey"])
            ELSE newValue
      [] fieldConfig["strategy"] = "custom" ->
            imageUrlMerge(hasExisting, IF hasExisting THEN existing[key] ELSE <<>>, newValue)
      [] OTHER -> newValue

\* a merge that copies the incoming fields that have no strategy
mergeDataSpread(existing, newData, config) ==
    LET touched == (DOMAIN newData) \cap (DOMAIN config) IN
    [key \in (DOMAIN existing) \cup (DOMAIN newData) |->
        IF key \in touched
        THEN mergeField(config[key], existing, key, newData[key])
        ELSE IF key \in DOMAIN newData THEN newData[key] ELSE existing[key]]

mergeData(existing, newData, config) ==
    LET touched == (DOMAIN newData) \cap (DOMAIN config) IN
    [key \in (DOMAIN existing) \cup touched |->
        IF key \in touched
        THEN mergeField(config[key], existing, key, newData[key])
        ELSE existing[key]]

-----------------------------------------------------------------------------
(* Shortcodes: createShortcode and withShortcode of utils.ts.  A string is   *)
(* the sequence of its char codes; a 32-bit number is kept as two 16-bit     *)
(* halves <<hi, lo>>.                                                        *)

\* String.prototype.charCodeAt for the strings that are hashed
CharCodes(str) ==
    CASE str = "song" -> <<115, 111, 110, 103>>
      [] str = "artist" -> <<97, 114, 116, 105, 115, 116>>
      [] str = "album" -> <<97, 108, 98, 117, 109>>
      [] str = ":" -> <<58>>
      [] str = "s1" -> <<115, 49>>
      [] str = "s2" -> <<115, 50>>

RECURSIVE BitXor(_, _)
BitXor(a, b) ==
    IF a = 0 THEN b
    ELSE IF b = 0 THEN a
    ELSE (((a % 2) + (b % 2)) % 2) + 2 * BitXor(a \div 2, b \div 2)

\* Math.imul(hash, 0x01000193), 0x01000193 = 2^24 + 403, modulo 2^32
ImulPrime(h) ==
    LET p == h[2] * 403
    IN <<((h[1] * 403) + (p \div 65536) + ((h[2] % 256) * 256)) % 65536, p % 65536>>

RECURSIVE fnv1aFrom(_, _)
fnv1aFrom(hash, codes) ==
    IF codes = <<>> THEN hash
    ELSE fnv1aFrom(ImulPrime(<<hash[1], BitXor(hash[2], Head(codes))>>), Tail(codes))

\* 0x811c9dc5 = <<0x811c, 0x9dc5>>
fnv1a(codes) == fnv1aFrom(<<33052, 40389>>, codes)

BASE62 ==
    <<"0", "1", "2", "3", "4", "5", "6", "7", "8", "9",
      "a", "b", "c", "d", "e", "f", "g", "h", "i", "j", "k", "l", "m",
      "n", "o", "p", "q", "r", "s", "t", "u", "v", "w", "x", "y", "z",
      "A", "B", "C", "D", "E", "F", "G", "H", "I", "J", "K", "L", "M",
      "N", "O", "P", "Q", "R", "S", "T", "U", "V", "W", "X", "Y", "Z">>

RECURSIVE toBase62(_)
toBase62(num) ==
    LET r == num[1] % 62
        t == (r * 65536) + num[2]
        q == <<num[1] \div 62, t \div 62>>
        digit == BASE62[(t % 62) + 1]
    IN IF q = <<0, 0>> THEN <<digit>> ELSE toBase62(q) \o <<digit>>

\* a padStart that leaves the string as it is
padNone(str, n, fill) == str

RECURSIVE padStart(_, _, _)
padStart(str, n, fill) == IF Len(str) >= n THEN str ELSE padStart(<<fill>> \o str, n, fill)

prefixMap == [song |-> <<"s", "o">>, artist |-> <<"a", "r">>, album |-> <<"a", "l">>]

\* prefixMapReverse[prefix], "" when the prefix is unknown
prefixMapReverse(prefix) ==
    CASE prefix = <<"s", "o">> -> "song"
      [] prefix = <<"a", "r">> -> "artist"
      [] prefix = <<"a", "l">> -> "album"
      [] OTHER -> ""

\* id is the sequence of the char codes of the id
createShortcode(id, type) ==
    prefixMap[type] \o padStart(toBase62(fnv1a(CharCodes(type) \o CharCodes(":") \o id)), 6, "0")

\* the shortcodes of the model's entities, computed once
ShortcodeTable ==
    [type \in {"song", "artist", "album"}, id \in {"s1", "s2"} |->
        createShortcode(CharCodes(id), type)]

\* a withShortcode that takes every entity for an album
withAlbumShortcode(ctx) == SetField(ctx, "shortcode", ShortcodeTable["album", ctx["syncId"]])

withShortcode(ctx) ==
    LET type == IF Has(ctx, "totalTracks") THEN "album"
                ELSE IF Has(ctx, "albums") THEN "artist"
                ELSE "song"
    IN SetField(ctx, "shortcode", ShortcodeTable[type, ctx["syncId"]])

-----------------------------------------------------------------------------
(* Text normalisation and syncId: utils.ts.  A title or a name is the        *)
(* sequence of its characters.  The characters of the model are the ASCII    *)
(* letters and digits, the space, and punctuation; \s is the space.          *)
(* The operators from UpperCase to SpacesAfter stand for the string methods  *)
(* and the character classes of regular expressions that utils.ts uses.      *)

UpperCase ==
    <<"A", "B", "C", "D", "E", "F", "G", "H", "I", "J", "K", "L", "M",
      "N", "O", "P", "Q", "R", "S", "T", "U", "V", "W", "X", "Y", "Z">>

LowerCase ==
    <<"a", "b", "c", "d", "e", "f", "g", "h", "i", "j", "k", "l", "m",
      "n", "o", "p", "q", "r", "s", "t", "u", "v", "w", "x", "y", "z">>

DecimalDigits == <<"0", "1", "2", "3", "4", "5", "6", "7", "8", "9">>

IndexIn(seq, c) == CHOOSE i \in 1..Len(seq) : seq[i] = c

isUpper(c) == \E i \in 1..26 : UpperCase[i] = c

\* \p{L}
isLetter(c) ==
    LET
        isLower(ch) == \E i \in 1..26 : LowerCase[i] = ch
    IN
                   isUpper(c) \/ isLower(c)

\* \p{N}
isDigit(c) == \E i \in 1..10 : DecimalDigits[i] = c

\* \s
isSpace(c) == c = " "

\* \w
isWordChar(c) == isLetter(c) \/ isDigit(c) \/ c = "_"

lowerChar(c) == IF isUpper(c) THEN LowerCase[IndexIn(UpperCase, c)] ELSE c

\* String.prototype.toLowerCase
lowerCase(s) == [i \in 1..Len(s) |-> lowerChar(s[i])]

\* s.slice(from - 1): the characters of s from position from on
SliceFrom(s, from) == SubSeq(s, from, Len(s))

\* the characters of s at the positions of keep, in their order
Pick(s, keep) ==
    LET idx(k) == CHOOSE i \in keep : Cardinality({j \in keep : j < i}) = k - 1
    IN [k \in 1..Cardinality(keep) |-> s[idx(k)]]

Least(S) == CHOOSE i \in S : \A j \in S : i <= j

\* String.prototype.trim
trim(s) ==
    LET solid == {i \in 1..Len(s) : ~isSpace(s[i])}
    IN IF solid = {} THEN <<>>
       ELSE SubSeq(s, Least(solid), CHOOSE i \in solid : \A j \in solid : j <= i)

\* s.replace(/\s+/g, " ").trim()
collapseWhitespace(s) ==
    trim(Pick(s, {i \in 1..Len(s) : ~isSpace(s[i]) \/ (i > 1 /\ ~isSpace(s[i - 1]))}))

\* \b at the position before s[i], 1 <= i <= Len(s) + 1
WordBoundary(s, i) ==
    LET before == IF i > 1 THEN isWordChar(s[i - 1]) ELSE FALSE
        after == IF i <= Len(s) THEN isWordChar(s[i]) ELSE FALSE
    IN before # after

\* the literal w (in lower case) matches s at position i, ignoring case
matchAt(s, i, w) ==
    /\ i >= 1
    /\ i + Len(w) - 1 <= Len(s)
    /\ lowerCase(SubSeq(s, i, i + Len(w) - 1)) = w

\* the first position of the run of spaces that ends right before position i
SpacesBefore(s, i) == Least({p \in 1..i : \A k \in p..(i - 1) : isSpace(s[k])})

\* the position after the run of spaces that starts at position i
SpacesAfter(s, i) == Least({p \in i..(Len(s) + 1) : p = Len(s) + 1 \/ ~isSpace(s[p])})

\* the first match of /(?:\(|\[).*?(?:\)|\])/ in s: <<first, last>>, or <<0, 0>>
bracketMatch(s) ==
    LET
        isOpen(c) == c \in {"(", "["}

        isClose(c) == c \in {")", "]"}
    IN
        LET opens == {i \in 1..Len(s) : isOpen(s[i]) /\ \E j \in (i + 1)..Len(s) : isClose(s[j])}
        IN IF opens = {} THEN <<0, 0>>
           ELSE <<Least(opens), Least({j \in (Least(opens) + 1)..Len(s) : isClose(s[j])})>>

\* s.replace(/\s*(?:\(|\[).*?(?:\)|\])/g, " ")
RECURSIVE removeBrackets(_)
removeBrackets(s) ==
    LET m == bracketMatch(s)
    IN IF m = <<0, 0>> THEN s
       ELSE SubSeq(s, 1, SpacesBefore(s, m[1]) - 1) \o <<" ">>
               \o removeBrackets(SliceFrom(s, m[2] + 1))

\* s.replace(/\b(?:feat(?:uring)?|ft)\b[:.\s-]*.*$/i, replacement)
removeFeat(s, replacement) ==
    LET
        FeatWords == {<<"f", "e", "a", "t">>, <<"f", "e", "a", "t", "u", "r", "i", "n", "g">>, <<"f", "t">>}
    IN
        LET starts == {i \in 1..Len(s) :
                         /\ WordBoundary(s, i)
                         /\ \E w \in FeatWords : matchAt(s, i, w) /\ WordBoundary(s, i + Len(w))}
        IN IF starts = {} THEN s ELSE SubSeq(s, 1, Least(starts) - 1) \o replacement

\* [-\u2014\u2013|:]; a character outside ASCII is written by its name
TitleSeparators == {"-", "EM DASH", "EN DASH", "|", ":"}

\* s.replace(/[^\p{L}\p{N}\s]/gu, " ")
removeSpecial(s) ==
    [i \in 1..Len(s) |-> IF isLetter(s[i]) \/ isDigit(s[i]) \/ isSpace(s[i]) THEN s[i] ELSE " "]

normalizeTitle(title) ==
    LET
        \* the position after the word that starts at position i
        WordEnd(s, i) == Least({p \in i..(Len(s) + 1) : p = Len(s) + 1 \/ ~isWordChar(s[p])})

        \* the word of s that starts at position i, in lower case
        WordAt(s, i) == lowerCase(SubSeq(s, i, WordEnd(s, i) - 1))

        \* official(?:\svideo)?|video|audio|lyrics?|remaster(?:ed)?|live|remix|mix|edit|
        \* version|instrumental|karaoke|cover
        TitleNoise ==
            { <<"o", "f", "f", "i", "c", "i", "a", "l">>, <<"v", "i", "d", "e", "o">>,
              <<"a", "u", "d", "i", "o">>, <<"l", "y", "r", "i", "c">>, <<"l", "y", "r", "i", "c", "s">>,
              <<"r", "e", "m", "a", "s", "t", "e", "r">>,
              <<"r", "e", "m", "a", "s", "t", "e", "r", "e", "d">>,
              <<"l", "i", "v", "e">>, <<"r", "e", "m", "i", "x">>, <<"m", "i", "x">>,
              <<"e", "d", "i", "t">>, <<"v", "e", "r", "s", "i", "o", "n">>,
              <<"i", "n", "s", "t", "r", "u", "m", "e", "n", "t", "a", "l">>,
              <<"k", "a", "r", "a", "o", "k", "e">>, <<"c", "o", "v", "e", "r">>}

        \* the position after the match of the metadata words that starts at position
        \* i of s, or 0 when none starts there
        noiseMatchEnd(s, i) ==
            IF ~(i <= Len(s) /\ WordBoundary(s, i) /\ isWordChar(s[i])) THEN 0
            ELSE LET e == WordEnd(s, i)
                 IN IF /\ WordAt(s, i) = <<"o", "f", "f", "i", "c", "i", "a", "l">>
                       /\ e + 1 <= Len(s)
                       /\ isSpace(s[e])
                       /\ WordAt(s, e + 1) = <<"v", "i", "d", "e", "o">>
                    THEN WordEnd(s, e + 1)
                    ELSE IF WordAt(s, i) \in TitleNoise THEN e ELSE 0

        \* s.replace(/\b(?:official(?:\svideo)?|...|cover)\b/gi, " ")
        RECURSIVE removeNoise(_)
        removeNoise(s) ==
            LET starts == {i \in 1..Len(s) : noiseMatchEnd(s, i) # 0}
            IN IF starts = {} THEN s
               ELSE SubSeq(s, 1, Least(starts) - 1) \o <<" ">>
                       \o removeNoise(SliceFrom(s, noiseMatchEnd(s, Least(starts))))

        \* s.split(/\s*[-\u2014\u2013|:]\s*/)[0]
        firstPart(s) ==
            LET seps == {i \in 1..Len(s) : s[i] \in TitleSeparators}
            IN IF seps = {} THEN s ELSE SubSeq(s, 1, SpacesBefore(s, Least(seps)) - 1)
    IN
        LET t == collapseWhitespace(removeSpecial(firstPart(removeNoise(
                     removeFeat(removeBrackets(lowerCase(title)), <<" ">>)))))
        IN IF t = <<>>
           THEN trim(removeSpecial(collapseWhitespace(lowerCase(title))))
           ELSE t

Undefined == [undefined |-> TRUE]

\* normalizeArtists returns undefined ("return;") when it meets an empty entry
normalizeArtists(artists) ==
    LET
        Defined(v) == [value |-> v]

        \* the position after the match of /[,&/\u00D7]|(?:\s+and\s+)|(?:\s+with\s+)|(?:\s+&\s+)/i
        \* that starts at position i of s, or 0 when none starts there
        artistSeparatorEnd(s, i) ==
            IF s[i] \in {",", "&", "/", "MULTIPLICATION SIGN"} THEN i + 1
            ELSE IF ~isSpace(s[i]) THEN 0
            ELSE LET q == SpacesAfter(s, i)
                 IN IF matchAt(s, q, <<"a", "n", "d">>) /\ q + 3 <= Len(s) /\ isSpace(s[q + 3])
                    THEN SpacesAfter(s, q + 3)
                    ELSE IF matchAt(s, q, <<"w", "i", "t", "h">>) /\ q + 4 <= Len(s) /\ isSpace(s[q + 4])
                    THEN SpacesAfter(s, q + 4)
                    ELSE IF matchAt(s, q, <<"&">>) /\ q + 1 <= Len(s) /\ isSpace(s[q + 1])
                    THEN SpacesAfter(s, q + 1)
                    ELSE 0

        \* s.split(/[,&/\u00D7]|(?:\s+and\s+)|(?:\s+with\s+)|(?:\s+&\s+)/i)
        RECURSIVE splitPieces(_)
        splitPieces(s) ==
            LET starts == {i \in 1..Len(s) : artistSeparatorEnd(s, i) # 0}
            IN IF starts = {} THEN <<s>>
               ELSE <<SubSeq(s, 1, Least(starts) - 1)>>
                       \o splitPieces(SliceFrom(s, artistSeparatorEnd(s, Least(starts))))

        \* the inner loop of normalizeArtists: the normalized names of the pieces
        RECURSIVE normalizePieces(_)
        normalizePieces(pieces) ==
            IF pieces = <<>> THEN <<>>
            ELSE LET a == collapseWhitespace(removeSpecial(removeFeat(lowerCase(Head(pieces)), <<" ">>)))
                 IN (IF a # <<>> THEN <<a>> ELSE <<>>) \o normalizePieces(Tail(pieces))

        \* the outer loop of normalizeArtists, for a list without empty entries
        RECURSIVE normalizedArtists(_)
        normalizedArtists(list) ==
            IF list = <<>> THEN <<>>
            ELSE normalizePieces(splitPieces(removeBrackets(Head(list))))
                    \o normalizedArtists(Tail(list))
    IN
        IF \E i \in 1..Len(artists) : artists[i] = <<>> THEN Undefined
        ELSE Defined(ArrayFromSet(normalizedArtists(artists)))

splitArtists(artistString) ==
    LET
        \* the position after the match of /\s+(?:&|vs\.?|and|,)\s+/i that starts at
        \* position i of s, or 0 when none starts there
        nameSeparatorEnd(s, i) ==
            IF ~isSpace(s[i]) THEN 0
            ELSE LET q == SpacesAfter(s, i)
                     spaced(p) == IF p <= Len(s) /\ isSpace(s[p]) THEN SpacesAfter(s, p) ELSE 0
                 IN IF matchAt(s, q, <<"&">>) THEN spaced(q + 1)
                    ELSE IF matchAt(s, q, <<"v", "s", ".">>) /\ spaced(q + 3) # 0 THEN spaced(q + 3)
                    ELSE IF matchAt(s, q, <<"v", "s">>) THEN spaced(q + 2)
                    ELSE IF matchAt(s, q, <<"a", "n", "d">>) THEN spaced(q + 3)
                    ELSE IF matchAt(s, q, <<",">>) THEN spaced(q + 1)
                    ELSE 0

        RECURSIVE splitNames(_)
        splitNames(s) ==
            LET starts == {i \in 1..Len(s) : nameSeparatorEnd(s, i) # 0}
            IN IF starts = {} THEN <<s>>
               ELSE <<SubSeq(s, 1, Least(starts) - 1)>>
                       \o splitNames(SliceFrom(s, nameSeparatorEnd(s, Least(starts))))

        \* .map((name) => name.trim()).filter(Boolean)
        RECURSIVE trimmedNames(_)
        trimmedNames(names) ==
            IF names = <<>> THEN <<>>
            ELSE (IF trim(Head(names)) # <<>> THEN <<trim(Head(names))>> ELSE <<>>)
                    \o trimmedNames(Tail(names))
    IN
        IF artistString = <<>> THEN <<>> ELSE trimmedNames(splitNames(artistString))

extractAllArtistsFromTitle(title) ==
    LET
        \* the matches of /(?:\(|\[)(.*?)(?:\)|\])/g in s, without their brackets
        RECURSIVE bracketMatches(_)
        bracketMatches(s) ==
            LET m == bracketMatch(s)
            IN IF m = <<0, 0>> THEN <<>>
               ELSE <<SubSeq(s, m[1] + 1, m[2] - 1)>> \o bracketMatches(SliceFrom(s, m[2] + 1))

        \* workingTitle after workingTitle.replace(match, "") for every match
        RECURSIVE withoutBrackets(_)
        withoutBrackets(s) ==
            LET m == bracketMatch(s)
            IN IF m = <<0, 0>> THEN s
               ELSE SubSeq(s, 1, m[1] - 1) \o withoutBrackets(SliceFrom(s, m[2] + 1))

        \* the position after the match of /^(?:feat|ft|featuring)\.?\s+/i, or 0
        featPrefixEnd(s) ==
            LET after(w) ==
                    IF ~matchAt(s, 1, w) THEN 0
                    ELSE LET p == IF Len(w) + 1 <= Len(s) /\ s[Len(w) + 1] = "." THEN Len(w) + 2
                                  ELSE Len(w) + 1
                         IN IF p <= Len(s) /\ isSpace(s[p]) THEN SpacesAfter(s, p) ELSE 0
            IN IF after(<<"f", "e", "a", "t">>) # 0 THEN after(<<"f", "e", "a", "t">>)
               ELSE IF after(<<"f", "t">>) # 0 THEN after(<<"f", "t">>)
               ELSE after(<<"f", "e", "a", "t", "u", "r", "i", "n", "g">>)

        RemixWords ==
            {<<"r", "e", "m", "i", "x">>, <<"b", "o", "o", "t", "l", "e", "g">>,
             <<"e", "d", "i", "t">>, <<"m", "i", "x">>}

        \* the position where the match of /\s+(?:remix|bootleg|edit|mix)$/i starts, or 0
        remixSuffixStart(s) ==
            LET starts == {i \in 2..Len(s) :
                             /\ isSpace(s[i - 1])
                             /\ \E w \in RemixWords : i + Len(w) - 1 = Len(s) /\ matchAt(s, i, w)}
            IN IF starts = {} THEN 0 ELSE SpacesBefore(s, Least(starts))

        MetaFragments ==
            {<<"o", "f", "f", "i", "c", "i", "a", "l">>, <<"v", "i", "d", "e", "o">>,
             <<"a", "u", "d", "i", "o">>, <<"l", "y", "r", "i", "c">>,
             <<"v", "i", "s", "u", "a", "l", "i", "z", "e", "r">>, <<"4", "k">>, <<"h", "d">>,
             <<"e", "x", "p", "l", "i", "c", "i", "t">>}

        \* /official|video|audio|lyric|visualizer|4k|hd|explicit/i.test(s)
        metaTest(s) == \E i \in 1..Len(s) : \E w \in MetaFragments : matchAt(s, i, w)

        \* the artists that one bracket of the title names
        bracketArtists(match) ==
            LET innerContent == trim(match)
            IN IF featPrefixEnd(innerContent) # 0
               THEN splitArtists(trim(SliceFrom(innerContent, featPrefixEnd(innerContent))))
               ELSE IF remixSuffixStart(innerContent) # 0
               THEN splitArtists(trim(SubSeq(innerContent, 1, remixSuffixStart(innerContent) - 1)))
               ELSE IF ~metaTest(innerContent) THEN splitArtists(innerContent)
               ELSE <<>>

        RECURSIVE allBracketArtists(_)
        allBracketArtists(matches) ==
            IF matches = <<>> THEN <<>>
            ELSE bracketArtists(Head(matches)) \o allBracketArtists(Tail(matches))

        \* the position after the match of /\s+[-\u2013|:]\s+/ that starts at position i
        mainSeparatorEnd(s, i) ==
            IF ~isSpace(s[i]) THEN 0
            ELSE LET q == SpacesAfter(s, i)
                 IN IF q + 1 <= Len(s) /\ s[q] \in {"-", "EN DASH", "|", ":"} /\ isSpace(s[q + 1])
                    THEN SpacesAfter(s, q + 1)
                    ELSE 0

        RECURSIVE splitMain(_)
        splitMain(s) ==
            LET starts == {i \in 1..Len(s) : mainSeparatorEnd(s, i) # 0}
            IN IF starts = {} THEN <<s>>
               ELSE <<SubSeq(s, 1, Least(starts) - 1)>>
                       \o splitMain(SliceFrom(s, mainSeparatorEnd(s, Least(starts))))

        MetadataWords ==
            {<<"e", "p">>, <<"l", "p">>, <<"s", "i", "n", "g", "l", "e">>, <<"d", "e", "l", "u", "x", "e">>,
             <<"r", "e", "m", "a", "s", "t", "e", "r">>,
             <<"r", "e", "m", "a", "s", "t", "e", "r", "e", "d">>, <<"l", "i", "v", "e">>,
             <<"a", "c", "o", "u", "s", "t", "i", "c">>,
             <<"i", "n", "s", "t", "r", "u", "m", "e", "n", "t", "a", "l">>,
             <<"a", "n", "n", "i", "v", "e", "r", "s", "a", "r", "y">>,
             <<"e", "d", "i", "t", "i", "o", "n">>, <<"v", "e", "r", "s", "i", "o", "n">>,
             <<"e", "x", "p", "a", "n", "d", "e", "d">>, <<"b", "o", "n", "u", "s">>,
             <<"e", "x", "p", "l", "i", "c", "i", "t">>}

        \* /^(?:ep|lp|single|...|explicit)(?:\s|$)/i.test(s)
        isMetadata(s) ==
            \E w \in MetadataWords :
                /\ matchAt(s, 1, w)
                /\ Len(w) = Len(s) \/ isSpace(s[Len(w) + 1])
    IN
        IF title = <<>> THEN <<>>
        ELSE LET parts == splitMain(withoutBrackets(title))
                 fromBrackets == allBracketArtists(bracketMatches(title))
             IN ArrayFromSet(
                   IF Len(parts) > 1 /\ ~isMetadata(lowerCase(trim(parts[2])))
                   THEN fromBrackets \o splitArtists(trim(parts[1]))
                   ELSE fromBrackets)

\* a.localeCompare(b, "en", { numeric: true })
sortAlphaNum(a, b) ==
    LET
        \* the punctuation of the model in the order of the collation
        CollationPunctuation == <<"_", "-", ",", ":", ".", "(", ")", "[", "]", "/", "&", "|">>

        \* the value of a run of digits; leading zeros do not count
        RECURSIVE digitsValue(_)
        digitsValue(run) ==
            IF run = <<>> THEN 0
            ELSE digitsValue(SubSeq(run, 1, Len(run) - 1)) * 10 + (IndexIn(DecimalDigits, run[Len(run)]) - 1)

        \* the position after the run of digits that starts at position i
        DigitsEnd(s, i) == Least({p \in i..(Len(s) + 1) : p = Len(s) + 1 \/ ~isDigit(s[p])})

        \* the primary weights of the "en" collation with numeric ordering: spaces,
        \* then punctuation, then numbers by value, then letters whatever their case
        RECURSIVE primaryKey(_)
        primaryKey(s) ==
            IF s = <<>> THEN <<>>
            ELSE IF isDigit(s[1])
            THEN <<100 + digitsValue(SubSeq(s, 1, DigitsEnd(s, 1) - 1))>>
                    \o primaryKey(SliceFrom(s, DigitsEnd(s, 1)))
            ELSE <<IF isSpace(s[1]) THEN 1
                   ELSE IF isLetter(s[1]) THEN 1000000 + IndexIn(LowerCase, lowerChar(s[1]))
                   ELSE IF \E i \in 1..Len(CollationPunctuation) : CollationPunctuation[i] = s[1]
                   THEN 10 + IndexIn(CollationPunctuation, s[1])
                   ELSE 99>> \o primaryKey(Tail(s))

        \* the tertiary weights: a lower-case letter sorts before its upper-case letter
        caseKey(s) ==
            LET letters == Pick(s, {i \in 1..Len(s) : isLetter(s[i])})
            IN [i \in 1..Len(letters) |-> IF isUpper(letters[i]) THEN 1 ELSE 0]

        \* the order of two sequences of numbers: -1, 0 or 1
        RECURSIVE compareKeys(_, _)
        compareKeys(k1, k2) ==
            IF k1 = <<>> /\ k2 = <<>> THEN 0
            ELSE IF k1 = <<>> THEN -1
            ELSE IF k2 = <<>> THEN 1
            ELSE IF Head(k1) < Head(k2) THEN -1
            ELSE IF Head(k1) > Head(k2) THEN 1
            ELSE compareKeys(Tail(k1), Tail(k2))
    IN
        IF compareKeys(primaryKey(a), primaryKey(b)) # 0
        THEN compareKeys(primaryKey(a), primaryKey(b))
        ELSE compareKeys(caseKey(a), caseKey(b))

\* Array.prototype.sort(sortAlphaNum): a stable sort
RECURSIVE sort(_)
sort(list) ==
    IF list = <<>> THEN <<>>
    ELSE LET x == list[Len(list)]
             sorted == sort(SubSeq(list, 1, Len(list) - 1))
         IN SelectSeq(sorted, LAMBDA y : sortAlphaNum(y, x) <= 0) \o <<x>>
               \o SelectSeq(sorted, LAMBDA y : sortAlphaNum(y, x) > 0)

\* buckets that start at the multiples of 5
floorDuration(seconds) == (seconds \div 5) * 5

\* Math.round(seconds / 5) * 5 for a whole number of seconds
bucketDuration(seconds) == ((2 * seconds + 5) \div 10) * 5

\* createHash("sha256").update(str).digest("hex"): the digest stands for the
\* string that was hashed (two strings have one digest only if they are equal)
sha256(str) == <<"sha256", str>>

\* generateSyncId returns the hash, or throws the TypeError of a method call
\* on undefined when normalizeArtists returned undefined
generateSyncId(title, artists, duration) ==
    LET
        \* String(n) for a natural number
        RECURSIVE numberToString(_)
        numberToString(n) ==
            IF n < 10 THEN <<DecimalDigits[n + 1]>>
            ELSE numberToString(n \div 10) \o <<DecimalDigits[(n % 10) + 1]>>
    IN
        IF normalizeArtists(artists) = Undefined
        THEN Thrown(<<"TypeError:", "Cannot", "read", "properties", "of", "undefined">>)
        ELSE LET canonicalTitle == normalizeTitle(title)
                 normalized == normalizeArtists(artists)["value"]
                 titleArtists == extractAllArtistsFromTitle(title)
                 canonicalArtists ==
                     normalized \o SelectSeq(titleArtists,
                                      LAMBDA artist : \A i \in 1..Len(normalized) : normalized[i] # artist)
                 sorted == sort(canonicalArtists)
                 firstArtist == IF Len(sorted) > 0 THEN sorted[1] ELSE <<>>
                 roundedDuration == bucketDuration(duration)
             IN Returned(sha256(lowerCase(canonicalTitle \o <<"_">> \o firstArtist \o <<"_">>
                                             \o numberToString(roundedDuration))))

normalizeForSearch(title) ==
    LET
        \* the position after the match of explicit|official(?:\s+(?:video|audio|
        \* music\s+video))?|video|audio|lyrics?|hd|4k|visualizer at position q, or 0
        searchNoiseEnd(s, q) ==
            LET spaced(p) == IF p <= Len(s) /\ isSpace(s[p]) THEN SpacesAfter(s, p) ELSE 0
                word(p, w) == p # 0 /\ matchAt(s, p, w)
                official == <<"o", "f", "f", "i", "c", "i", "a", "l">>
                video == <<"v", "i", "d", "e", "o">>
                audio == <<"a", "u", "d", "i", "o">>
                music == <<"m", "u", "s", "i", "c">>
                e == q + 8
            IN IF matchAt(s, q, <<"e", "x", "p", "l", "i", "c", "i", "t">>) THEN q + 8
               ELSE IF matchAt(s, q, official)
               THEN IF word(spaced(e), video) \/ word(spaced(e), audio) THEN spaced(e) + 5
                    ELSE IF word(spaced(e), music) /\ word(spaced(spaced(e) + 5), video)
                    THEN spaced(spaced(e) + 5) + 5
                    ELSE e
               ELSE IF matchAt(s, q, video) \/ matchAt(s, q, audio) THEN q + 5
               ELSE IF matchAt(s, q, <<"l", "y", "r", "i", "c", "s">>) THEN q + 6
               ELSE IF matchAt(s, q, <<"l", "y", "r", "i", "c">>) THEN q + 5
               ELSE IF matchAt(s, q, <<"h", "d">>) \/ matchAt(s, q, <<"4", "k">>) THEN q + 2
               ELSE IF matchAt(s, q, <<"v", "i", "s", "u", "a", "l", "i", "z", "e", "r">>) THEN q + 10
               ELSE 0

        \* s.replace(/\s*\(?\s*(?:explicit|...|visualizer)\s*\)?/gi, " ")
        RECURSIVE removeSearchNoise(_)
        removeSearchNoise(s) ==
            LET words == {q \in 1..Len(s) : searchNoiseEnd(s, q) # 0}
                q == Least(words)
                p == SpacesBefore(s, q)
                start == IF p > 1 /\ s[p - 1] = "(" THEN SpacesBefore(s, p - 1) ELSE p
                e == SpacesAfter(s, searchNoiseEnd(s, q))
                end == IF e <= Len(s) /\ s[e] = ")" THEN e + 1 ELSE e
            IN IF words = {} THEN s
               ELSE SubSeq(s, 1, start - 1) \o <<" ">> \o removeSearchNoise(SliceFrom(s, end))

        \* the position after the match of [-\u2014\u2013|:]\s*(?:ep|lp|single)(?:\s|$)
        \* at the separator at position o, or 0
        formatEnd(s, o) ==
            IF s[o] \notin TitleSeparators THEN 0
            ELSE LET q == SpacesAfter(s, o + 1)
                     closed(p) == IF p = Len(s) + 1 THEN p
                                  ELSE IF isSpace(s[p]) THEN p + 1 ELSE 0
                 IN IF matchAt(s, q, <<"e", "p">>) \/ matchAt(s, q, <<"l", "p">>) THEN closed(q + 2)
                    ELSE IF matchAt(s, q, <<"s", "i", "n", "g", "l", "e">>) THEN closed(q + 6)
                    ELSE 0

        \* s.replace(/\s*[-\u2014\u2013|:]\s*(?:ep|lp|single)(?:\s|$)/gi, " ")
        RECURSIVE removeFormat(_)
        removeFormat(s) ==
            LET seps == {o \in 1..Len(s) : formatEnd(s, o) # 0}
            IN IF seps = {} THEN s
               ELSE SubSeq(s, 1, SpacesBefore(s, Least(seps)) - 1) \o <<" ">>
                       \o removeFormat(SliceFrom(s, formatEnd(s, Least(seps))))

        \* s.replace(/\[/g, "(").replace(/\]/g, ")")
        roundBrackets(s) ==
            [i \in 1..Len(s) |-> IF s[i] = "[" THEN "(" ELSE IF s[i] = "]" THEN ")" ELSE s[i]]
    IN
        collapseWhitespace(roundBrackets(removeFormat(removeSearchNoise(
            removeFeat(trim(title), <<>>)))))

\* cleanTitle and allArtists of normalizeSongData
normalizeSongData(songInfo) ==
    LET
        \* the position after the match of /[,&]\s*|\s* and \s*/i that starts at
        \* position i of s, or 0 when none starts there
        listSeparatorEnd(s, i) ==
            IF s[i] \in {",", "&"} THEN SpacesAfter(s, i + 1)
            ELSE IF ~isSpace(s[i]) THEN 0
            ELSE LET q == SpacesAfter(s, i)
                 IN IF matchAt(s, q, <<"a", "n", "d">>) /\ q + 3 <= Len(s) /\ isSpace(s[q + 3])
                    THEN SpacesAfter(s, q + 3)
                    ELSE 0

        \* s.split(/[,&]\s*|\s* and \s*/i).map((a) => a.trim())
        RECURSIVE splitList(_)
        splitList(s) ==
            LET starts == {i \in 1..Len(s) : listSeparatorEnd(s, i) # 0}
            IN IF starts = {} THEN <<trim(s)>>
               ELSE <<trim(SubSeq(s, 1, Least(starts) - 1))>>
                       \o splitList(SliceFrom(s, listSeparatorEnd(s, Least(starts))))

        \* the loop of normalizeSongData over songInfo.artists
        RECURSIVE splitAll(_)
        splitAll(artists) ==
            IF artists = <<>> THEN <<>>
            ELSE SelectSeq(splitList(Head(artists)), LAMBDA a : Len(a) > 0) \o splitAll(Tail(artists))

        \* match[1] of title.match(/\(feat\.? (.*?)\)/i), "" when there is no match
        featuredMatch(title) ==
            LET inner(i) == IF ~matchAt(title, i, <<"(", "f", "e", "a", "t">>) THEN 0
                            ELSE IF matchAt(title, i + 5, <<".", " ">>) THEN i + 7
                            ELSE IF matchAt(title, i + 5, <<" ">>) THEN i + 6
                            ELSE 0
                starts == {i \in 1..Len(title) :
                             inner(i) # 0 /\ \E j \in inner(i)..Len(title) : title[j] = ")"}
                from == inner(Least(starts))
            IN IF starts = {} THEN <<>>
               ELSE SubSeq(title, from, Least({j \in from..Len(title) : title[j] = ")"}) - 1)
    IN
        LET normalizedArtistList == splitAll(songInfo["artists"])
            featured == featuredMatch(songInfo["title"])
            featuredArtists == IF featured = <<>> THEN <<>> ELSE splitList(featured)
        IN [cleanTitle |-> normalizeForSearch(songInfo["title"]),
            allArtists |-> ArrayFromSet(normalizedArtistList \o featuredArtists)]

\* songData as upsertSong hands it to upsertEntity
upsertSongInput(songData) ==
    IF Has(songData, "title") /\ songData["title"] # <<>>
    THEN Spread(songData, [title |-> normalizeSongData(songData)["cleanTitle"],
                           artists |-> normalizeSongData(songData)["allArtists"]])
    ELSE songData

-----------------------------------------------------------------------------
(* Store access layer: src/src/database.ts.  A row is a function from the   *)
(* columns that are not null to their values; a JSON column that holds no   *)
(* entries (null, [] or {}) is the empty map.  The entities of the          *)
(* conversions carry the fields the orchestrator reads or writes: their     *)
(* title and artists, which pass the validation of mapSongToInsert, are     *)
(* left out.                                                                *)

NoRow == [absent |-> TRUE]

\* no pure function is being evaluated
NoCalc == [op |-> "none"]

SyncIds == {"s1", "s2"}

\* the columns of the songs table that are copied as they are
PlainSongColumns ==
    {"syncId", "shortcode", "title", "description", "artists", "album", "duration",
     "imageUrl", "animatedImageUrl", "explicit"}

\* entries.length ? Object.fromEntries(entries) : null
externalIdsToJson(ids) ==
    Restrict(ids, {k \in DOMAIN ids : ids[k] # ""})

castExternalIds(value) ==
    Restrict(value, {k \in DOMAIN value : value[k] # ""})

\* Date.prototype.toISOString: the ISO-8601 string of an instant
toISOString(t) == <<"iso", t>>

\* parseDateValue of a stored ISO-8601 string
parseDateValue(value) == value[2]

serializeConversionErrors(errors) ==
    [service \in DOMAIN errors |->
        SetField(errors[service], "lastAttempt", toISOString(errors[service]["lastAttempt"]))]

serializeConversionWarnings(warnings) ==
    [service \in DOMAIN warnings |->
        SetField(warnings[service], "timestamp", toISOString(warnings[service]["timestamp"]))]

deserializeConversionErrors(value) ==
    [service \in DOMAIN value |->
        LET payload == value[service]
            base == [attempts |-> GetOr(payload, "attempts", 0),
                     lastAttempt |-> IF Has(payload, "lastAttempt")
                                     THEN parseDateValue(payload["lastAttempt"]) ELSE 0,
                     retryable |-> GetOr(payload, "retryable", FALSE)]
            withError == IF Has(payload, "lastError")
                         THEN SetField(base, "lastError", payload["lastError"]) ELSE base
        IN IF Has(payload, "errorType")
           THEN SetField(withError, "errorType", payload["errorType"]) ELSE withError]

deserializeConversionWarnings(value) ==
    [service \in DOMAIN value |->
        [message |-> GetOr(value[service], "message", <<"Unknown", "warning">>),
         timestamp |-> IF Has(value[service], "timestamp")
                       THEN parseDateValue(value[service]["timestamp"]) ELSE 0]]

\* the validation at the head of mapSongToInsert: the message of the error it
\* throws for a song with a title column, or <<>>
songInsertError(song) ==
    IF ~Has(song, "syncId") \/ song["syncId"] = ""
    THEN <<"Song", "syncId", "is", "required", "for", "upsert", "operations.">>
    ELSE IF ~Has(song, "title") \/ song["title"] = <<>>
    THEN <<"Song", "title", "is", "required", "for", "upsert", "operations.">>
    ELSE IF ~Has(song, "artists") \/ song["artists"] = <<>>
    THEN <<"At", "least", "one", "artist", "is", "required", "for", "song", "upserts.">>
    ELSE <<>>

mapSongToInsert(song) ==
    LET columns == Restrict(song, PlainSongColumns)
        plain == IF Has(song, "releaseDate")
                 THEN SetField(columns, "releaseDate", toISOString(song["releaseDate"]))
                 ELSE columns
    IN Spread(plain,
          [externalIds |-> externalIdsToJson(GetOr(song, "externalIds", EmptyMap)),
           conversionErrors |-> serializeConversionErrors(GetOr(song, "conversionErrors", EmptyMap)),
           conversionWarnings |-> serializeConversionWarnings(GetOr(song, "conversionWarnings", EmptyMap))])

mapSongRow(row) ==
    LET columns == Restrict(row, PlainSongColumns)
        plain == IF Has(row, "releaseDate")
                 THEN SetField(columns, "releaseDate", parseDateValue(row["releaseDate"]))
                 ELSE columns
        ids == SetField(plain, "externalIds", castExternalIds(row["externalIds"]))
        errors == deserializeConversionErrors(row["conversionErrors"])
        warnings == deserializeConversionWarnings(row["conversionWarnings"])
        withErrors == IF DOMAIN errors # {} THEN SetField(ids, "conversionErrors", errors) ELSE ids
    IN IF DOMAIN warnings # {} THEN SetField(withErrors, "conversionWarnings", warnings)
       ELSE withErrors

\* getSongBySyncId: the stored entity, or NoRow for null
getSongBySyncId(table, syncId) ==
    IF table[syncId] = NoRow THEN NoRow ELSE mapSongRow(table[syncId])

\* fetchRowByShortcode: select * where shortcode = ..., maybeSingle.  table is
\* the songs table; the albums and artists tables hold no rows.  More than
\* one matching row is an error of maybeSingle, which is thrown
fetchRowByShortcode(table, tableName, shortcode) ==
    LET rows == IF tableName = "songs"
                THEN {id \in DOMAIN table :
                        /\ table[id] # NoRow
                        /\ GetOr(table[id], "shortcode", <<>>) = shortcode}
                ELSE {}
    IN IF Cardinality(rows) > 1
       THEN Thrown(<<"Error", "fetching", tableName, "entity", "by", "shortcode">>)
       ELSE IF rows = {} THEN Returned(NoRow)
       ELSE Returned(table[CHOOSE id \in rows : TRUE])

\* resolveShortcode: the entity of the row that carries the shortcode, NoRow
\* (null) when there is none or the lookup failed
resolveShortcode(table, shortcode) ==
    LET
        TABLE_BY_SHORTCODE_TYPE == [song |-> "songs", album |-> "albums", artist |-> "artists"]
    IN
        LET shortcodeType == prefixMapReverse(SubSeq(shortcode, 1, 2))
        IN IF shortcodeType = ""
           THEN Thrown(<<"Invalid", "shortcode", "prefix.">>)
           ELSE LET row == fetchRowByShortcode(table, TABLE_BY_SHORTCODE_TYPE[shortcodeType], shortcode)
                IN IF row["kind"] = "throw" THEN Returned(NoRow)
                   ELSE IF row["value"] = NoRow THEN Returned(NoRow)
                   ELSE Returned(mapSongRow(row["value"]))

\* a merge step that ignores the row that was read
upsertNoMerge(existingRow, newData, mergeConfig) == newData

\* the merge step of upsertEntity
upsertMerge(existingRow, newData, mergeConfig) ==
    IF existingRow # NoRow
    THEN mergeData(mapSongRow(existingRow), newData, mergeConfig)
    ELSE newData

\* the row that upsertEntity writes for newData when it reads existingRow
upsertPayload(existingRow, newData, mergeConfig) ==
    mapSongToInsert(upsertMerge(existingRow, newData, mergeConfig))

\* upsertSong run to completion on table: the table afterwards
upsertSongTable(table, songData) ==
    [table EXCEPT ![songData["syncId"]] =
        upsertPayload(table[songData["syncId"]], upsertSongInput(songData), songMergeConfig)]

\* what upsertSong returns: this.rowToDomain('songs', data)
upsertSongResult(table, songData) ==
    mapSongRow(upsertSongTable(table, songData)[songData["syncId"]])

-----------------------------------------------------------------------------
(* Catalog adapters (the external collaborators), as the outcomes one search *)
(* call can have.                                                            *)

\* the syncId of the entity that callers convert, and the syncId that a
\* fallback candidate computes
InputSyncId == "s1"

OtherSyncId == "s2"

InputSong == [syncId |-> InputSyncId]

\* what a search of the conversions throws: a miss (not_found, never retried)
\* and a failed request (network, retried at once and after the cooldown)
AdapterErrors == { <<"No", "song", "found">>, <<"fetch", "failed">> }

AdapterIds == {"i1"}

\* what one call of getSongBySearchQuery does: it returns the candidate whose
\* syncId is the expected one, or the closest candidate, or it throws
AdapterOutcomes ==
    {[kind |-> "exact", id |-> i] : i \in AdapterIds}
    \cup {[kind |-> "fallback", id |-> i] : i \in AdapterIds}
    \cup {[kind |-> "throw", message |-> m] : m \in AdapterErrors}

\* the entity getSongById builds for a catalog's track
adapterSong(serviceName, id, syncId) ==
    [syncId |-> syncId,
     externalIds |-> [k \in {SyncFMExternalIdMapToDesiredService[serviceName]} |-> id]]

\* what getSongBySearchQuery(query, expectedSyncId) returns for a successful outcome
getSongBySearchQuery(serviceName, outcome, expectedSyncId) ==
    IF outcome["kind"] = "exact"
    THEN adapterSong(serviceName, outcome["id"], expectedSyncId)
    ELSE SetField(adapterSong(serviceName, outcome["id"], OtherSyncId), "__usedFallback", TRUE)

-----------------------------------------------------------------------------
(* Conversion orchestrator: class SyncFM of src/src/index.ts *)

getConversionFlightKey(syncId, inputType) == <<inputType, syncId>>

\* cleanData as the adapter built it, with the syncId it computed
cleanData(convertedData, inputData) == DelField(convertedData, "__usedFallback")

\* const normalizedData = { ...cleanData, syncId: inputData.syncId }
normalizedData(convertedData, inputData) ==
    SetField(DelField(convertedData, "__usedFallback"), "syncId", inputData["syncId"])

\* an invokeServiceMethod without the catch block: what the search throws
\* leaves the call as an exception
invokeRethrows(serviceName, inputData, attemptNumber, outcome, t) ==
    IF outcome["kind"] = "throw"
    THEN [retry |-> FALSE, result |-> Thrown(outcome["message"])]
    ELSE [retry |-> FALSE,
          result |-> [service |-> serviceName, success |-> outcome["kind"] # "null"]]

\* One adapter call of invokeServiceMethod and what follows it up to the
\* return or the recursive retry: [retry |-> TRUE] or [retry |-> FALSE, result |-> r]
invokeServiceMethod(serviceName, inputData, attemptNumber, outcome, t) ==
    IF outcome["kind"] = "throw"
    THEN LET cat == categorizeError(outcome["message"]) IN
         IF shouldRetryImmediately(cat["errorType"], attemptNumber)
         THEN [retry |-> TRUE]
         ELSE [retry |-> FALSE,
               result |-> [service |-> serviceName, success |-> FALSE,
                           error |-> [service |-> serviceName, timestamp |-> t,
                                      errorType |-> cat["errorType"],
                                      message |-> outcome["message"],
                                      retryable |-> cat["retryable"]]]]
    ELSE IF outcome["kind"] = "null"
    THEN LET cat == categorizeError(<<"No", "result", "returned">>) IN
         [retry |-> FALSE,
          result |-> [service |-> serviceName, success |-> FALSE,
                      error |-> [service |-> serviceName, timestamp |-> t,
                                 errorType |-> cat["errorType"],
                                 message |-> <<"No", "result", "from", serviceName>>,
                                 retryable |-> cat["retryable"]]]]
    ELSE LET convertedData == getSongBySearchQuery(serviceName, outcome, inputData["syncId"]) IN
         [retry |-> FALSE,
          result |-> [service |-> serviceName, success |-> TRUE,
                      data |-> normalizedData(convertedData, inputData),
                      usedFallback |-> GetOr(convertedData, "__usedFallback", FALSE)]]

\* servicesToRetry of checkDatabaseForExistingConversion, in the order of SUPPORTED_SERVICES
servicesToRetry(dbItem, t) ==
    SelectSeq(SUPPORTED_SERVICES,
              LAMBDA s : /\ Has(dbItem, "conversionErrors")
                         /\ s \in DOMAIN dbItem["conversionErrors"]
                         /\ shouldRetryService(dbItem["conversionErrors"][s], t))

\* the else-branch of the retry loop: "Still failing - update error history"
retryFailureUpdate(dbItem, result) ==
    LET errors == GetOr(dbItem, "conversionErrors", EmptyMap)
        service == result["service"]
        attempts == IF service \in DOMAIN errors THEN errors[service]["attempts"] ELSE 0
    IN SetField(dbItem, "conversionErrors",
          SetField(errors, service,
             [lastAttempt |-> result["error"]["timestamp"],
              attempts |-> attempts + 1,
              lastError |-> result["error"]["message"],
              retryable |-> result["error"]["retryable"]]))

\* delete dbItem.conversionErrors[result.service]
retrySuccessClear(dbItem, service) ==
    IF Has(dbItem, "conversionErrors")
    THEN SetField(dbItem, "conversionErrors", DelField(dbItem["conversionErrors"], service))
    ELSE dbItem

mergeEntityData(existing, incoming, inputType) ==
    CASE inputType = "song" -> mergeData(existing, incoming, songMergeConfig)
      [] inputType = "artist" -> mergeData(existing, incoming, artistMergeConfig)
      [] inputType = "album" -> mergeData(existing, incoming, albumMergeConfig)

FallbackWarningMessage == <<"No", "exact", "syncId", "match", "found,", "used", "closest", "match">>

\* the loop "for (const result of results)" of executeUnifiedConvert over the
\* results from index i on; acc holds aggregatedItem, aggregatedErrors,
\* aggregatedWarnings and failedServiceErrors
RECURSIVE aggregateResults(_, _, _, _, _)
aggregateResults(results, i, acc, inputType, t) ==
    IF i > Len(results) THEN acc
    ELSE LET result == results[i] IN
         IF result["success"]
         THEN LET incoming == withShortcode(result["data"])
                  item == IF acc["item"] # NoRow
                          THEN mergeEntityData(acc["item"], incoming, inputType)
                          ELSE incoming
                  warnings == IF result["usedFallback"]
                              THEN SetField(acc["warnings"], result["service"],
                                            [message |-> FallbackWarningMessage, timestamp |-> t])
                              ELSE DelField(acc["warnings"], result["service"])
              IN With([acc EXCEPT !["item"] = item,
                                  !["errors"] = DelField(acc["errors"], result["service"]),
                                  !["warnings"] = warnings],
                      LAMBDA next : aggregateResults(results, i + 1, next, inputType, t))
         ELSE With([acc EXCEPT !["failed"] =
                        SetField(acc["failed"], result["service"],
                           [lastAttempt |-> result["error"]["timestamp"],
                            attempts |-> 1,
                            lastError |-> result["error"]["message"],
                            retryable |-> result["error"]["retryable"]])],
                   LAMBDA next : aggregateResults(results, i + 1, next, inputType, t))

\* x.f = Object.keys(m).length > 0 ? m : undefined
assignOrUndefined(x, f, m) == IF DOMAIN m # {} THEN SetField(x, f, m) ELSE DelField(x, f)

\* lines 1024-1073 of executeUnifiedConvert: the aggregate that is handed to the
\* upsert (item = NoRow when no catalog succeeded and nothing was stored), with
\* failedServiceErrors
aggregate(priorEntity, results, inputType, t) ==
    LET acc0 == [item |-> priorEntity,
                 errors |-> IF priorEntity # NoRow
                            THEN GetOr(priorEntity, "conversionErrors", EmptyMap) ELSE EmptyMap,
                 warnings |-> IF priorEntity # NoRow
                              THEN GetOr(priorEntity, "conversionWarnings", EmptyMap) ELSE EmptyMap,
                 failed |-> EmptyMap]
        acc == aggregateResults(results, 1, acc0, inputType, t)
        mergedErrors == Spread(acc["errors"], acc["failed"])
    IN [item |-> IF acc["item"] = NoRow THEN NoRow
                 ELSE assignOrUndefined(
                         assignOrUndefined(acc["item"], "conversionErrors", mergedErrors),
                         "conversionWarnings", acc["warnings"]),
        failed |-> acc["failed"]]

\* parts.join(sep) of strings that are sequences of words
RECURSIVE join(_, _)
join(parts, sep) ==
    IF Len(parts) = 0 THEN <<>>
    ELSE IF Len(parts) = 1 THEN parts[1]
    ELSE parts[1] \o <<sep>> \o join(Tail(parts), sep)

\* a summary that names the first failed catalog only
firstFailure(errors) ==
    LET listed == SelectSeq(SUPPORTED_SERVICES, LAMBDA s : s \in DOMAIN errors)
    IN IF Len(listed) = 0 THEN <<"All", "services", "failed">>
       ELSE <<listed[1], ":">> \o GetOr(errors[listed[1]], "lastError", <<"Unknown", "error">>)

\* Object.entries(errors).map(([service, error]) => `${service}: ${error.lastError}`)
\*    .join('; '), and 'All services failed' when that is empty
errorSummary(errors) ==
    LET listed == SelectSeq(SUPPORTED_SERVICES, LAMBDA s : s \in DOMAIN errors)
        parts == [i \in 1..Len(listed) |->
                    <<listed[i], ":">> \o
                    GetOr(errors[listed[i]], "lastError", <<"Unknown", "error">>)]
    IN IF Len(parts) = 0 THEN <<"All", "services", "failed">> ELSE join(parts, ";")

\* the Error thrown by executeUnifiedConvert
conversionFailure(desiredService, summary, finalItem) ==
    [error |-> "Could not convert to desired service", desiredService |-> desiredService,
     failures |-> summary, finalItem |-> finalItem]

\* successfulExternalIds of executeUnifiedConvert
successfulExternalIds(resolvedItem) ==
    {k \in DOMAIN GetOr(resolvedItem, "externalIds", EmptyMap) : Truthy(resolvedItem["externalIds"][k])}

\* convertedItem of the partial-success branch before it is upserted
partialItem(resolvedItem, desiredService, t) ==
    SetField(resolvedItem, "conversionErrors",
       SetField(GetOr(resolvedItem, "conversionErrors", EmptyMap), desiredService,
          [lastAttempt |-> t, attempts |-> 1,
           lastError |-> <<"Missing", "external", "ID", "for", desiredService>>,
           retryable |-> TRUE]))

-----------------------------------------------------------------------------
(* The state machine of the orchestrator.  All callers convert InputSong, so *)
(* there is one flight key and at most one running frame.                    *)

Callers == 1..NumCallers

FlightKey == getConversionFlightKey(InputSyncId, "song")

\* maxAttempts of executeUnifiedConvertWithRetry
maxAttempts == 3

\* attempts of waitForExistingConversionResult
ExistingResultAttempts == 20

IdleFrame ==
    [pc |-> "idle", desired |-> "none", attempt |-> 0, dbItem |-> NoRow,
     retrying |-> <<>>, idx |-> 0, results |-> <<>>, item |-> NoRow,
     failed |-> EmptyMap, poll |-> 0, lastError |-> NoRow, outcome |-> NoRow]

IdleCall == [st |-> "idle", attemptNumber |-> 0, result |-> NoRow]

PendingCall(n) == [st |-> "pending", attemptNumber |-> n, result |-> NoRow]

\* a caller of convertSong; flight numbers the conversion whose promise it
\* awaits, ok is the set of catalogs whose search had succeeded in that
\* conversion when the promise settled
IdleCaller ==
    [st |-> "idle", desired |-> "none", joined |-> FALSE, flight |-> 0,
     outcome |-> NoRow, ok |-> {}]

ZeroHist ==
    [bodies |-> 0, fanouts |-> 0, searched |-> FALSE, looked |-> FALSE,
     firstItem |-> NoRow, firstTime |-> 0, ok |-> {}, finished |-> 0, external |-> 0]

\* a flight map in which no key is ever found
noFlight(flightMap, key) == FALSE

\* this.conversionFlights.get(key) of withConversionFlight is defined
existingFlight(flightMap, key) == key \in flightMap

\* a promise that is never settled: the frame stays where it is
settleNever(frame, outcome) == frame

\* the promise of the frame settles: cleanup removes the flight and every
\* caller that awaits the promise receives its outcome
settle(frame, outcome) == [frame EXCEPT !["pc"] = "done", !["outcome"] = outcome]

\* a catch block that starts one more execution after the last attempt
catchOneMore(frame, error) ==
    LET caught == [IdleFrame EXCEPT !["desired"] = frame["desired"],
                                    !["attempt"] = frame["attempt"],
                                    !["lastError"] = error]
    IN IF frame["attempt"] <= maxAttempts
       THEN [caught EXCEPT !["pc"] = "lookup", !["attempt"] = @ + 1]
       ELSE [caught EXCEPT !["pc"] = "lastResort"]

\* a catch block that keeps the error of the first attempt
catchKeepFirst(frame, error) ==
    LET caught == [IdleFrame EXCEPT !["desired"] = frame["desired"],
                                    !["attempt"] = frame["attempt"],
                                    !["lastError"] = IF frame["lastError"] # NoRow
                                                     THEN frame["lastError"] ELSE error]
    IN IF frame["attempt"] < maxAttempts
       THEN [caught EXCEPT !["pc"] = "lookup", !["attempt"] = @ + 1]
       ELSE [caught EXCEPT !["pc"] = "lastResort"]

\* the catch block of executeUnifiedConvertWithRetry
catchError(frame, error) ==
    LET caught == [IdleFrame EXCEPT !["desired"] = frame["desired"],
                                    !["attempt"] = frame["attempt"],
                                    !["lastError"] = error]
    IN IF frame["attempt"] < maxAttempts
       THEN [caught EXCEPT !["pc"] = "lookup", !["attempt"] = @ + 1]
       ELSE [caught EXCEPT !["pc"] = "lastResort"]

\* the frame becomes f and the history h; when f is settled the flight is
\* cleaned up and its outcome delivered
CommitHist(f, h) ==
    /\ fl' = f
    /\ IF f["pc"] = "done"
       THEN /\ flights' = flights \ {FlightKey}
            /\ callers' = [c \in Callers |->
                             IF callers[c]["st"] = "waiting"
                             THEN [callers[c] EXCEPT !["st"] = "settled",
                                                     !["outcome"] = f["outcome"],
                                                     !["ok"] = h["ok"]]
                             ELSE callers[c]]
            /\ hist' = [h EXCEPT !["bodies"] = 0, !["finished"] = @ + 1]
       ELSE /\ UNCHANGED <<flights, callers>>
            /\ hist' = h

Commit(f) == CommitHist(f, hist)

\* SUPPORTED_SERVICES.map(serviceName => this.invokeServiceMethod(...)): the
\* frame and the calls after the fan-out is issued with priorEntity read
fanoutFrame(frame, priorEntity) ==
    [frame EXCEPT !["pc"] = "fanout", !["dbItem"] = priorEntity, !["results"] = <<>>,
                  !["retrying"] = <<>>, !["idx"] = 0]

AllPending == [s \in ServiceNames |-> PendingCall(1)]

fanoutHist(h) ==
    [h EXCEPT !["fanouts"] = @ + 1, !["searched"] = TRUE]

\* first lookup of a flight: remember what was stored
lookedHist(h, dbItem) ==
    IF h["looked"] THEN h
    ELSE [h EXCEPT !["looked"] = TRUE, !["firstItem"] = dbItem, !["firstTime"] = now]

\* the result of invokeServiceMethod for one outcome of the first adapter call
\* that is not retried at once
resultOf(serviceName, outcome, t) ==
    invokeServiceMethod(serviceName, InputSong, 2, outcome, t)["result"]

\* the row that a conversion at time 0 stores when nothing was stored before
\* and the catalogs answer with outcomes
storedAfter(outcomes) ==
    upsertSongTable([id \in SyncIds |-> NoRow],
        aggregate(NoRow,
                  [i \in 1..Len(SUPPORTED_SERVICES) |->
                      resultOf(SUPPORTED_SERVICES[i], outcomes[i], 0)],
                  "song", 0)["item"])[InputSyncId]

Exact == [kind |-> "exact", id |-> "i1"]

Fallback == [kind |-> "fallback", id |-> "i1"]

NotFound == [kind |-> "throw", message |-> <<"No", "song", "found">>]

FetchFailed == [kind |-> "throw", message |-> <<"fetch", "failed">>]

\* what the store holds for the song when the callers arrive: nothing, the
\* song as one catalog knows it, or what an earlier conversion stored
StoredRecords ==
    { NoRow,
      mapSongToInsert(withShortcode(adapterSong("spotify", "i1", InputSyncId))),
      storedAfter(<<Exact, Exact, FetchFailed>>),
      storedAfter(<<NotFound, Fallback, Exact>>) }

Init ==
    /\ db \in {[id \in SyncIds |-> IF id = InputSyncId THEN r ELSE NoRow] : r \in StoredRecords}
    /\ now = 0
    /\ flights = {}
    /\ fl = IdleFrame
    /\ svc = [s \in ServiceNames |-> IdleCall]
    /\ callers = [c \in Callers |-> IdleCaller]
    /\ hist = ZeroHist
    /\ calc = NoCalc
    /\ locks = <<>>
    /\ ups = <<>>

\* the callers are numbered in the order of their calls; each calls once
nextCaller(c) ==
    /\ callers[c]["st"] = "idle"
    /\ \A k \in Callers : k < c => callers[k]["st"] # "idle"

\* withConversionFlight, no flight registered: the task starts (its first
\* store read is issued) and its promise is registered
StartFlight(c, desiredService) ==
    /\ ~existingFlight(flights, FlightKey)
    /\ hist["finished"] < MaxFlights
    /\ nextCaller(c)
    /\ flights' = flights \cup {FlightKey}
    /\ fl' = [IdleFrame EXCEPT !["pc"] = "lookup", !["desired"] = desiredService,
                               !["attempt"] = 1]
    /\ svc' = [s \in ServiceNames |-> IdleCall]
    /\ callers' = [callers EXCEPT ![c] = [st |-> "waiting", desired |-> desiredService,
                                          joined |-> FALSE, flight |-> hist["finished"] + 1,
                                          outcome |-> NoRow, ok |-> {}]]
    /\ hist' = IF FlightKey \in flights
               THEN [hist EXCEPT !["bodies"] = @ + 1]
               ELSE [ZeroHist EXCEPT !["bodies"] = 1, !["finished"] = hist["finished"],
                                     !["external"] = hist["external"]]
    /\ UNCHANGED <<db, now, locks, ups, calc>>

\* withConversionFlight, a flight is registered: the caller gets its promise
JoinFlight(c, desiredService) ==
    /\ existingFlight(flights, FlightKey)
    /\ nextCaller(c)
    /\ callers' = [callers EXCEPT ![c] = [st |-> "waiting", desired |-> desiredService,
                                          joined |-> TRUE, flight |-> hist["finished"] + 1,
                                          outcome |-> NoRow, ok |-> {}]]
    /\ UNCHANGED <<db, now, flights, fl, svc, hist, locks, ups, calc>>

\* the desired catalog's key is present in the entity
hasDesired(entity, desiredService) ==
    HasExternalId(entity, SyncFMExternalIdMapToDesiredService[desiredService])

\* checkDatabaseForExistingConversion finds nothing stored: the fan-out is issued
LookupMiss ==
    /\ fl["pc"] = "lookup"
    /\ getSongBySyncId(db, InputSyncId) = NoRow
    /\ svc' = AllPending
    /\ CommitHist(fanoutFrame(fl, NoRow), fanoutHist(lookedHist(hist, NoRow)))
    /\ UNCHANGED <<db, now, locks, ups, calc>>

\* a stored record with error history that shouldRetryService accepts: the
\* failed catalogs are searched again
LookupRetry ==
    LET dbItem == getSongBySyncId(db, InputSyncId)
        retrying == servicesToRetry(dbItem, now)
    IN /\ fl["pc"] = "lookup"
       /\ dbItem # NoRow
       /\ retrying # <<>>
       /\ svc' = [s \in ServiceNames |->
                    IF \E i \in 1..Len(retrying) : retrying[i] = s
                    THEN PendingCall(1) ELSE IdleCall]
       /\ CommitHist([fl EXCEPT !["pc"] = "retrySearch", !["dbItem"] = dbItem,
                                !["retrying"] = retrying, !["idx"] = 1],
                     [lookedHist(hist, dbItem) EXCEPT !["searched"] = TRUE])
       /\ UNCHANGED <<db, now, locks, ups, calc>>

\* a lookup that finds the desired external ID and searches all the same
LookupFoundSearch ==
    LET dbItem == getSongBySyncId(db, InputSyncId) IN
    /\ fl["pc"] = "lookup"
    /\ dbItem # NoRow
    /\ servicesToRetry(dbItem, now) = <<>>
    /\ hasDesired(dbItem, fl["desired"])
    /\ svc' = AllPending
    /\ CommitHist(fanoutFrame(fl, dbItem), fanoutHist(lookedHist(hist, dbItem)))
    /\ UNCHANGED <<db, now, locks, ups, calc>>

\* a stored record, nothing to retry, the desired external ID present: cache hit
LookupFound ==
    LET dbItem == getSongBySyncId(db, InputSyncId) IN
    /\ fl["pc"] = "lookup"
    /\ dbItem # NoRow
    /\ servicesToRetry(dbItem, now) = <<>>
    /\ hasDesired(dbItem, fl["desired"])
    /\ CommitHist(settle([fl EXCEPT !["dbItem"] = dbItem], Returned(dbItem)),
                  lookedHist(hist, dbItem))
    /\ UNCHANGED <<db, now, svc, locks, ups, calc>>

\* a stored record, nothing to retry, the desired external ID absent: fan-out
LookupNotFound ==
    LET dbItem == getSongBySyncId(db, InputSyncId) IN
    /\ fl["pc"] = "lookup"
    /\ dbItem # NoRow
    /\ servicesToRetry(dbItem, now) = <<>>
    /\ ~hasDesired(dbItem, fl["desired"])
    /\ svc' = AllPending
    /\ CommitHist(fanoutFrame(fl, dbItem), fanoutHist(lookedHist(hist, dbItem)))
    /\ UNCHANGED <<db, now, locks, ups, calc>>

\* the entity handed to the search: dbItem in the retry step, inputInfo in the fan-out
inputData == IF fl["pc"] = "retrySearch" THEN fl["dbItem"] ELSE InputSong

\* the calls run in parallel and share no state: they are taken to settle in
\* the order of SUPPORTED_SERVICES
turnOf(s) ==
    \A i \in 1..Len(SUPPORTED_SERVICES) :
        svc[SUPPORTED_SERVICES[i]]["st"] = "pending" => \E j \in 1..i : SUPPORTED_SERVICES[j] = s

\* an adapter call returns or throws and invokeServiceMethod returns its result
ServiceRespond(s) ==
    /\ fl["pc"] \in {"retrySearch", "fanout"}
    /\ svc[s]["st"] = "pending"
    /\ turnOf(s)
    /\ \E outcome \in AdapterOutcomes :
          LET r == invokeServiceMethod(s, inputData, svc[s]["attemptNumber"], outcome, now) IN
          /\ ~r["retry"]
          /\ svc' = [svc EXCEPT ![s] = [st |-> "done", attemptNumber |-> 0,
                                         result |-> r["result"]]]
          /\ hist' = IF r["result"]["success"]
                     THEN [hist EXCEPT !["ok"] = @ \cup {s}] ELSE hist
    /\ UNCHANGED <<db, now, flights, fl, callers, locks, ups, calc>>

\* an adapter call throws and invokeServiceMethod calls the adapter again
ServiceRetry(s) ==
    /\ fl["pc"] \in {"retrySearch", "fanout"}
    /\ svc[s]["st"] = "pending"
    /\ turnOf(s)
    /\ \E outcome \in AdapterOutcomes :
          invokeServiceMethod(s, inputData, svc[s]["attemptNumber"], outcome, now)["retry"]
    /\ svc' = [svc EXCEPT ![s] = PendingCall(@["attemptNumber"] + 1)]
    /\ UNCHANGED <<db, now, flights, fl, callers, hist, locks, ups, calc>>

AllDone(services) == \A s \in services : svc[s]["st"] = "done"

Retrying == {fl["retrying"][i] : i \in 1..Len(fl["retrying"])}

\* one iteration of "for (const result of results)" of the retry step
RetryProcess ==
    LET result == svc[fl["retrying"][fl["idx"]]]["result"] IN
    /\ fl["pc"] = "retrySearch"
    /\ AllDone(Retrying)
    /\ fl["idx"] <= Len(fl["retrying"])
    /\ IF result["success"]
       THEN /\ db' = upsertSongTable(db, result["data"])
            /\ fl' = [fl EXCEPT !["idx"] = @ + 1,
                                !["dbItem"] = retrySuccessClear(
                                                 upsertSongResult(db, result["data"]),
                                                 result["service"])]
       ELSE /\ db' = db
            /\ fl' = [fl EXCEPT !["idx"] = @ + 1,
                                !["dbItem"] = retryFailureUpdate(fl["dbItem"], result)]
    /\ UNCHANGED <<now, flights, svc, callers, hist, locks, ups, calc>>

\* "Update the database with new error state", then the check of the desired ID
RetrySave ==
    LET dbItem == upsertSongResult(db, fl["dbItem"]) IN
    /\ fl["pc"] = "retrySearch"
    /\ AllDone(Retrying)
    /\ fl["idx"] > Len(fl["retrying"])
    /\ db' = upsertSongTable(db, fl["dbItem"])
    /\ IF hasDesired(dbItem, fl["desired"])
       THEN /\ Commit(settle([fl EXCEPT !["dbItem"] = dbItem], Returned(dbItem)))
            /\ svc' = svc
       ELSE /\ CommitHist(fanoutFrame(fl, dbItem), fanoutHist(hist))
            /\ svc' = AllPending
    /\ UNCHANGED <<now, locks, ups, calc>>

\* the results of the fan-out in the order in which the searches settled
resultsAsSettled == [i \in 1..Len(calc["order"]) |-> svc[calc["order"][i]]["result"]]

\* Promise.all of the fan-out, in the order of SUPPORTED_SERVICES
fanoutResults == [i \in 1..Len(SUPPORTED_SERVICES) |-> svc[SUPPORTED_SERVICES[i]]["result"]]

\* the fan-out is complete and nothing was stored or found: executeUnifiedConvert
\* throws and the retry wrapper catches
AggregateNone ==
    /\ fl["pc"] = "fanout"
    /\ AllDone(ServiceNames)
    /\ \E agg \in {aggregate(fl["dbItem"], fanoutResults, "song", now)} :
          /\ agg["item"] = NoRow
          /\ Commit(catchError([fl EXCEPT !["results"] = fanoutResults, !["failed"] = agg["failed"]],
                               conversionFailure(fl["desired"], errorSummary(agg["failed"]), NoRow)))
    /\ UNCHANGED <<db, now, svc, locks, ups, calc>>

\* the fan-out is complete: the aggregate is upserted
AggregatePersist ==
    /\ fl["pc"] = "fanout"
    /\ AllDone(ServiceNames)
    /\ \E agg \in {aggregate(fl["dbItem"], fanoutResults, "song", now)} :
          /\ agg["item"] # NoRow
          /\ db' = upsertSongTable(db, agg["item"])
          /\ fl' = [fl EXCEPT !["pc"] = "refetch", !["results"] = fanoutResults,
                              !["failed"] = agg["failed"],
                              !["item"] = upsertSongResult(db, agg["item"])]
    /\ UNCHANGED <<now, flights, svc, callers, hist, locks, ups, calc>>

\* attempts of waitForEntityAvailability
AvailabilityAttempts == 8

\* waitForEntityAvailability from read number attempt on, when the upserted row
\* becomes visible to the reader after lag reads: the loop ends with the first
\* read that finds the entity, or with NoRow (null) after the last attempt;
\* reads counts the reads of the store
RECURSIVE waitForEntityAvailability(_, _, _, _)
waitForEntityAvailability(table, syncId, lag, attempt) ==
    IF attempt >= AvailabilityAttempts
    THEN [entity |-> NoRow, reads |-> attempt]
    ELSE LET entity == IF attempt < lag THEN NoRow ELSE getSongBySyncId(table, syncId)
         IN IF entity # NoRow
            THEN [entity |-> entity, reads |-> attempt + 1]
            ELSE waitForEntityAvailability(table, syncId, lag, attempt + 1)

\* lines 1091-1156 of executeUnifiedConvert up to the next upsert; lags are
\* the delays with which the re-fetch poll may see the row; poll keeps the
\* number of reads the poll made
Refetch(lags) ==
    /\ fl["pc"] = "refetch"
    /\ \E lag \in lags :
       \E polled \in {waitForEntityAvailability(db, InputSyncId, lag, 0)} :
       \E convertedItem \in {IF polled["entity"] # NoRow THEN polled["entity"] ELSE fl["item"]} :
          LET hasLoggedDesiredError ==
                  /\ Has(convertedItem, "conversionErrors")
                  /\ fl["desired"] \in DOMAIN convertedItem["conversionErrors"]
              read == [fl EXCEPT !["poll"] = polled["reads"]]
          IN IF hasDesired(convertedItem, fl["desired"])
             THEN Commit(settle(read, Returned(convertedItem)))
             ELSE IF successfulExternalIds(convertedItem) # {}
             THEN IF hasLoggedDesiredError
                  THEN Commit(settle(read, Returned(convertedItem)))
                  ELSE Commit([read EXCEPT !["pc"] = "partialSave",
                                           !["item"] = partialItem(convertedItem, fl["desired"], now)])
             ELSE Commit(catchError(fl,
                     conversionFailure(fl["desired"],
                        errorSummary(IF Has(convertedItem, "conversionErrors")
                                     THEN convertedItem["conversionErrors"] ELSE fl["failed"]),
                        convertedItem)))
    /\ UNCHANGED <<db, now, svc, locks, ups, calc>>

\* the upsert of the partial-success branch and the return of its result
PartialSave ==
    /\ fl["pc"] = "partialSave"
    /\ db' = upsertSongTable(db, fl["item"])
    /\ Commit(settle(fl, Returned(upsertSongResult(db, fl["item"]))))
    /\ UNCHANGED <<now, svc, locks, ups, calc>>

\* one read of waitForExistingConversionResult that finds the desired external ID
LastResortFound ==
    LET entity == getSongBySyncId(db, InputSyncId) IN
    /\ fl["pc"] = "lastResort"
    /\ fl["poll"] < ExistingResultAttempts
    /\ entity # NoRow
    /\ hasDesired(entity, fl["desired"])
    /\ Commit(settle(fl, Returned(entity)))
    /\ UNCHANGED <<db, now, svc, locks, ups, calc>>

\* one read of waitForExistingConversionResult that does not find it
LastResortMiss ==
    LET entity == getSongBySyncId(db, InputSyncId) IN
    /\ fl["pc"] = "lastResort"
    /\ fl["poll"] < ExistingResultAttempts
    /\ ~(entity # NoRow /\ hasDesired(entity, fl["desired"]))
    /\ Commit([fl EXCEPT !["poll"] = @ + 1])
    /\ UNCHANGED <<db, now, svc, locks, ups, calc>>

\* the polling loop is exhausted: throw lastError
LastResortGiveUp ==
    /\ fl["pc"] = "lastResort"
    /\ fl["poll"] = ExistingResultAttempts
    /\ Commit(settle(fl, Thrown(fl["lastError"])))
    /\ UNCHANGED <<db, now, svc, locks, ups, calc>>

\* time passes (one cooldown interval; a conversion takes less) before a
\* conversion starts
Tick ==
    /\ now < MaxTime
    /\ flights = {}
    /\ hist["finished"] < MaxFlights
    /\ now' = now + 1
    /\ UNCHANGED <<db, flights, fl, svc, callers, hist, locks, ups, calc>>

\* while a conversion is in progress another process, which converts the song
\* to the same catalog, upserts the song as that catalog knows it
ExternalUpsert ==
    /\ hist["external"] < MaxExternal
    /\ flights # {}
    /\ db' = upsertSongTable(db, withShortcode(adapterSong(fl["desired"], "i1", InputSyncId)))
    /\ hist' = [hist EXCEPT !["external"] = @ + 1]
    /\ UNCHANGED <<now, flights, fl, svc, callers, locks, ups, calc>>

Next ==
    \/ \E c \in Callers, d \in ServiceNames : StartFlight(c, d)
    \/ \E c \in Callers, d \in ServiceNames : JoinFlight(c, d)
    \/ LookupMiss
    \/ LookupRetry
    \/ LookupFound
    \/ LookupNotFound
    \/ \E s \in ServiceNames : ServiceRespond(s)
    \/ \E s \in ServiceNames : ServiceRetry(s)
    \/ RetryProcess
    \/ RetrySave
    \/ AggregateNone
    \/ AggregatePersist
    \/ Refetch({0})
    \/ PartialSave
    \/ LastResortFound
    \/ LastResortMiss
    \/ LastResortGiveUp
    \/ Tick
    \/ ExternalUpsert

Spec == Init /\ [][Next]_vars

-----------------------------------------------------------------------------
(* Properties of the conversions (specification Spec) *)

Settled(c) == callers[c]["st"] = "settled"

FlightDone == fl["pc"] = "done"

FlightReturned == FlightDone /\ fl["outcome"]["kind"] = "return"

FlightThrew == FlightDone /\ fl["outcome"]["kind"] = "throw"

\* the record held in the store for the input's syncId
Stored == getSongBySyncId(db, InputSyncId)

ErrorsOf(entity) == GetOr(entity, "conversionErrors", EmptyMap)

WarningsOf(entity) == GetOr(entity, "conversionWarnings", EmptyMap)

SameOutcomes ==
    \A c1, c2 \in Callers :
        (Settled(c1) /\ Settled(c2) /\ callers[c1]["flight"] = callers[c2]["flight"])
            => callers[c1]["outcome"] = callers[c2]["outcome"]

\* C1 (as amended): for calls on one key while a conversion is in progress, one
\* conversion body runs at a time and every caller receives its outcome; the
\* fan-out is issued at most once per attempt of the body's retry wrapper, that
\* is at most maxAttempts times, and never once per caller.
C1_OneBodyPerFlight ==
    /\ hist["bodies"] <= 1
    /\ hist["fanouts"] <= fl["attempt"]
    /\ fl["attempt"] <= maxAttempts
    /\ SameOutcomes

\* C1 as stated: the body runs once, the fan-out is issued once in total, and
\* every caller receives the same outcome.
C1_FanoutOnceInTotal ==
    /\ hist["bodies"] <= 1
    /\ hist["fanouts"] <= 1
    /\ SameOutcomes

\* two callers of one flight have received its outcome after the fan-out ran
C1_Witness ==
    /\ \E c1, c2 \in Callers :
          /\ Settled(c1) /\ Settled(c2)
          /\ ~callers[c1]["joined"] /\ callers[c2]["joined"]
          /\ callers[c1]["flight"] = callers[c2]["flight"]
    /\ hist["fanouts"] >= 1

\* C2 (as amended): when the record stored at the lookup has the desired
\* external ID and no error entry of it is due for a retry (shouldRetryService),
\* the conversion returns that record and no adapter search is invoked.
C2_CacheHitNothingDue ==
    (/\ FlightDone
     /\ hist["firstItem"] # NoRow
     /\ hasDesired(hist["firstItem"], fl["desired"])
     /\ servicesToRetry(hist["firstItem"], hist["firstTime"]) = <<>>)
    => /\ ~hist["searched"]
       /\ fl["outcome"] = Returned(hist["firstItem"])

\* C2 as stated: when the stored record has the desired external ID no adapter
\* search is invoked, whatever error history it holds.
C2_CacheHitAlways ==
    (/\ FlightDone
     /\ hist["firstItem"] # NoRow
     /\ hasDesired(hist["firstItem"], fl["desired"]))
    => /\ ~hist["searched"]
       /\ fl["outcome"] = Returned(hist["firstItem"])

\* a cache hit on a record that holds error history
C2_Witness ==
    /\ FlightReturned
    /\ hist["firstItem"] # NoRow
    /\ hasDesired(hist["firstItem"], fl["desired"])
    /\ DOMAIN ErrorsOf(hist["firstItem"]) # {}
    /\ ~hist["searched"]

\* C3: a caller whose target catalog's search succeeded during the conversion
\* receives a record with a non-empty external ID for the target, and every
\* record a caller receives has the input's syncId.
C3_HappyPath ==
    \A c \in Callers :
        Settled(c) =>
            /\ callers[c]["outcome"]["kind"] = "return"
                  => callers[c]["outcome"]["value"]["syncId"] = InputSyncId
            /\ callers[c]["desired"] \in callers[c]["ok"]
                  => /\ callers[c]["outcome"]["kind"] = "return"
                     /\ hasDesired(callers[c]["outcome"]["value"], callers[c]["desired"])

\* a caller has received the record after its target answered with a fallback
\* candidate, whose computed syncId is another
C3_Witness ==
    \E c \in Callers :
        /\ Settled(c)
        /\ callers[c]["desired"] \in callers[c]["ok"]
        /\ fl["results"] # <<>>
        /\ svc[callers[c]["desired"]]["result"]["success"]
        /\ svc[callers[c]["desired"]]["result"]["usedFallback"]
        /\ callers[c]["outcome"]["kind"] = "return"

\* the last fan-out of the flight: the target failed with not_found and another
\* catalog succeeded
PartialFailure ==
    /\ FlightDone
    /\ fl["results"] # <<>>
    /\ ~svc[fl["desired"]]["result"]["success"]
    /\ svc[fl["desired"]]["result"]["error"]["errorType"] = "not_found"
    /\ \E s \in ServiceNames : svc[s]["result"]["success"]

\* C4 as stated: after a fan-out in which the target failed with not_found and
\* another catalog succeeded, the conversion returns a record that has the other
\* catalog's external ID and a conversionErrors entry for the target with
\* retryable = false, whether or not a record was stored before.
C4_PartialFailureRecorded ==
    PartialFailure =>
        /\ FlightReturned
        /\ \A s \in ServiceNames :
              svc[s]["result"]["success"] => hasDesired(fl["outcome"]["value"], s)
        /\ fl["desired"] \in DOMAIN ErrorsOf(fl["outcome"]["value"])
        /\ ~ErrorsOf(fl["outcome"]["value"])[fl["desired"]]["retryable"]

\* the partial failure on a song that was not stored before, where the entry is returned
C4_Witness ==
    /\ PartialFailure
    /\ hist["firstItem"] = NoRow
    /\ FlightReturned
    /\ fl["desired"] \in DOMAIN ErrorsOf(fl["outcome"]["value"])

\* the conversion returned a partial result
PartialResult ==
    /\ FlightReturned
    /\ ~hasDesired(fl["outcome"]["value"], fl["desired"])
    /\ successfulExternalIds(fl["outcome"]["value"]) # {}

\* C5 as stated: whenever the conversion returns a partial result, the stored
\* record has a conversionErrors entry for the desired catalog.
C5_PartialResultStored ==
    PartialResult => fl["desired"] \in DOMAIN ErrorsOf(Stored)

\* a partial result whose error entry is stored
C5_Witness ==
    /\ PartialResult
    /\ fl["desired"] \in DOMAIN ErrorsOf(Stored)

\* 'catalog: message' of every catalog, joined by '; ', with the messages of the
\* results of the last fan-out
AllFailuresListed ==
    <<"applemusic", ":">> \o svc["applemusic"]["result"]["error"]["message"] \o <<";">>
    \o <<"spotify", ":">> \o svc["spotify"]["result"]["error"]["message"] \o <<";">>
    \o <<"ytmusic", ":">> \o svc["ytmusic"]["result"]["error"]["message"]

\* C6: when no catalog's search succeeds and the store holds no record for the
\* syncId, the conversion throws, and the error it throws lists every catalog
\* with its failure message as 'catalog: message' joined by '; '.
C6_AllFailedListed ==
    /\ (FlightDone /\ db[InputSyncId] = NoRow) => FlightThrew
    /\ FlightThrew =>
          /\ \A s \in ServiceNames : svc[s]["st"] = "done" /\ ~svc[s]["result"]["success"]
          /\ fl["outcome"]["value"]["failures"] = AllFailuresListed

\* the conversion threw after the catalogs failed with different messages
C6_Witness ==
    /\ FlightThrew
    /\ svc["applemusic"]["result"]["error"]["message"] = <<"No", "song", "found">>
    /\ svc["ytmusic"]["result"]["error"]["message"] = <<"fetch", "failed">>

\* C7 as stated: after a fan-out, a catalog whose result was flagged as a
\* fallback match has a conversionWarnings entry in the returned and in the
\* stored record, and a catalog whose result was an exact match has none in the
\* stored record.
C7_FallbackWarning ==
    (FlightReturned /\ fl["results"] # <<>>) =>
        \A s \in ServiceNames :
            svc[s]["result"]["success"] =>
                IF svc[s]["result"]["usedFallback"]
                THEN /\ hasDesired(fl["outcome"]["value"], s)
                     /\ s \in DOMAIN WarningsOf(fl["outcome"]["value"])
                     /\ s \in DOMAIN WarningsOf(Stored)
                ELSE s \notin DOMAIN WarningsOf(Stored)

\* a fallback match was merged and its warning is in the returned record
C7_Witness ==
    /\ FlightReturned
    /\ fl["results"] # <<>>
    /\ \E s \in ServiceNames :
          /\ svc[s]["result"]["success"]
          /\ svc[s]["result"]["usedFallback"]
          /\ hasDesired(fl["outcome"]["value"], s)
          /\ s \in DOMAIN WarningsOf(fl["outcome"]["value"])


\* C17: a song that a conversion stored under syncId s carries the shortcode
\* ShortcodeTable["song", s], and resolveShortcode of that shortcode returns
\* the stored song: the lookup goes to the songs table and finds the row.
C17_ShortcodeRoundTrip ==
    \A s \in SyncIds :
        db[s] # NoRow =>
            /\ GetOr(db[s], "shortcode", <<>>) = ShortcodeTable["song", s]
            /\ resolveShortcode(db, ShortcodeTable["song", s]) = Returned(getSongBySyncId(db, s))

\* the store held nothing for the input when the conversion looked, the
\* conversion has stored a song, and its shortcode resolves to it
C17_Witness ==
    /\ FlightDone
    /\ hist["looked"]
    /\ hist["firstItem"] = NoRow
    /\ hist["external"] = 0
    /\ \E s \in SyncIds :
          /\ db[s] # NoRow
          /\ resolveShortcode(db, ShortcodeTable["song", s]) = Returned(getSongBySyncId(db, s))


\* the three conditions of the deferred retry, at time t: marked retryable,
\* fewer than 3 attempts, 5 minutes (one unit of the clock) since lastAttempt
Due(history, t) ==
    /\ history["retryable"]
    /\ history["attempts"] < 3
    /\ t - history["lastAttempt"] >= 1

\* the retry step invokes the search of catalog s in this step
RetryInvokes(s) ==
    /\ fl'["pc"] = "retrySearch"
    /\ svc[s]["st"] # "pending"
    /\ svc'[s]["st"] = "pending"

-----------------------------------------------------------------------------
(* Upserts of one Database instance: withEntityLock and upsertEntity of      *)
(* src/src/database.ts, step by step.  ups[i] is the i-th call of upsertSong *)
(* in the order of the calls; locks is this.entityLocks, whose value for a   *)
(* key is the nextPromise of the call that set it.                           *)

Upserts == 1..NumUpserts

createLockKey(table, syncId) == <<table, syncId>>

IdleUpsert ==
    [st |-> "idle", newData |-> NoRow, previous |-> 0, released |-> FALSE,
     existingRow |-> NoRow, merged |-> NoRow, result |-> NoRow]

\* externalIds of the songs that are upserted (SyncFMExternalIdMap: each
\* catalog key is optional and its value a string)
IncomingIds ==
    { EmptyMap,
      [k \in {"Spotify"} |-> "i2"],
      [k \in {"Spotify"} |-> ""],
      [k \in {"YouTube"} |-> "i1"] }

UpsertInputs == {[syncId |-> id, externalIds |-> e] : id \in SyncIds, e \in IncomingIds}

lockKeyOf(i) == createLockKey("songs", ups[i]["newData"]["syncId"])

\* nextPromise of call i = previousSafe.then(() => current) is resolved: its
\* previous promise is resolved and release() was called
RECURSIVE nextPromiseResolved(_)
nextPromiseResolved(i) ==
    /\ ups[i]["released"]
    /\ IF ups[i]["previous"] = 0 THEN TRUE ELSE nextPromiseResolved(ups[i]["previous"])

\* a call that never waits for the previous holder
neverWaits(i) == TRUE

\* previousSafe of call i is resolved: await previousSafe continues
previousSafeResolved(i) ==
    IF ups[i]["previous"] = 0 THEN TRUE ELSE nextPromiseResolved(ups[i]["previous"])

InitDb ==
    /\ db \in {[id \in SyncIds |-> IF id = InputSyncId THEN r ELSE NoRow] :
                 r \in {NoRow, mapSongToInsert(withShortcode(adapterSong("spotify", "i1", InputSyncId)))}}
    /\ locks = EmptyMap
    /\ ups = [i \in Upserts |-> IdleUpsert]
    /\ now = 0
    /\ flights = {}
    /\ fl = IdleFrame
    /\ svc = [s \in ServiceNames |-> IdleCall]
    /\ callers = [c \in Callers |-> IdleCaller]
    /\ hist = ZeroHist
    /\ calc = NoCalc

\* upsertSong(songData) is called: withEntityLock runs to "await previousSafe"
RequestUpsert(i, songData) ==
    LET key == createLockKey("songs", songData["syncId"]) IN
    /\ ups[i]["st"] = "idle"
    /\ \A k \in Upserts : k < i => ups[k]["st"] # "idle"
    /\ ups' = [ups EXCEPT ![i] = [IdleUpsert EXCEPT
                                     !["st"] = "waiting",
                                     !["newData"] = upsertSongInput(songData),
                                     !["previous"] = GetOr(locks, key, 0)]]
    /\ locks' = SetField(locks, key, i)
    /\ UNCHANGED <<db, now, flights, fl, svc, callers, hist, calc>>

\* previousSafe is resolved: the task starts and issues fetchRowBySyncId
AcquireLock(i) ==
    /\ ups[i]["st"] = "waiting"
    /\ previousSafeResolved(i)
    /\ ups' = [ups EXCEPT ![i]["st"] = "locked"]
    /\ UNCHANGED <<db, locks, now, flights, fl, svc, callers, hist, calc>>

\* the store answers the read
ReadRow(i) ==
    /\ ups[i]["st"] = "locked"
    /\ ups' = [ups EXCEPT ![i]["st"] = "read",
                          ![i]["existingRow"] = db[ups[i]["newData"]["syncId"]]]
    /\ UNCHANGED <<db, locks, now, flights, fl, svc, callers, hist, calc>>

\* the merge, and the store executes the upsert of the payload
WriteRow(i) ==
    LET newData == ups[i]["newData"]
        payload == upsertPayload(ups[i]["existingRow"], newData, songMergeConfig)
    IN /\ ups[i]["st"] = "read"
       /\ db' = [db EXCEPT ![newData["syncId"]] = payload]
       /\ ups' = [ups EXCEPT ![i]["st"] = "written",
                             ![i]["merged"] = upsertMerge(ups[i]["existingRow"], newData,
                                                          songMergeConfig),
                             ![i]["result"] = Returned(mapSongRow(payload))]
       /\ UNCHANGED <<locks, now, flights, fl, svc, callers, hist, calc>>

\* the store answers the upsert with an error: upsertEntity throws
WriteError(i) ==
    /\ ups[i]["st"] = "read"
    /\ ups' = [ups EXCEPT ![i]["st"] = "failed",
                          ![i]["result"] = Thrown(<<"Error", "upserting", "songs", "entity">>)]
    /\ UNCHANGED <<db, locks, now, flights, fl, svc, callers, hist, calc>>

\* a withEntityLock without finally: the lock is released only when the task
\* has returned
ReleaseUnlessThrown(i) ==
    /\ ups[i]["st"] \in {"written", "failed"}
    /\ ups' = [ups EXCEPT ![i]["st"] = "done", ![i]["released"] = (ups[i]["st"] = "written")]
    /\ locks' = IF ups[i]["st"] = "written" /\ Has(locks, lockKeyOf(i)) /\ locks[lockKeyOf(i)] = i
                THEN DelField(locks, lockKeyOf(i)) ELSE locks
    /\ UNCHANGED <<db, now, flights, fl, svc, callers, hist, calc>>

\* the finally block of withEntityLock
ReleaseLock(i) ==
    /\ ups[i]["st"] \in {"written", "failed"}
    /\ ups' = [ups EXCEPT ![i]["st"] = "done", ![i]["released"] = TRUE]
    /\ locks' = IF Has(locks, lockKeyOf(i)) /\ locks[lockKeyOf(i)] = i
                THEN DelField(locks, lockKeyOf(i)) ELSE locks
    /\ UNCHANGED <<db, now, flights, fl, svc, callers, hist, calc>>

NextDb ==
    \/ \E i \in Upserts, songData \in UpsertInputs : RequestUpsert(i, songData)
    \/ \E i \in Upserts : AcquireLock(i)
    \/ \E i \in Upserts : ReadRow(i)
    \/ \E i \in Upserts : WriteRow(i)
    \/ \E i \in Upserts : WriteError(i)
    \/ \E i \in Upserts : ReleaseLock(i)

SpecDb == InitDb /\ [][NextDb]_vars

-----------------------------------------------------------------------------
(* Properties of the upserts (specification SpecDb) *)

\* call i has merged onto a stored record
MergedOnto(i) == ups[i]["merged"] # NoRow /\ ups[i]["existingRow"] # NoRow

ExistingOf(i) == mapSongRow(ups[i]["existingRow"])

MergeConfigs == {songMergeConfig, artistMergeConfig, albumMergeConfig}

\* a stored record stays and keeps a non-empty external ID for every catalog
\* it had one for
StoreKeepsIds ==
    \A id \in SyncIds :
        db[id] # NoRow =>
            /\ db'[id] # NoRow
            /\ \A k \in ExternalIdKeys :
                  HasExternalId(getSongBySyncId(db, id), k)
                     => HasExternalId(getSongBySyncId(db', id), k)

\* C8: stored external IDs only accumulate: no step deletes a stored record or
\* leaves a catalog that had a non-empty external ID without one.
C8_IdsAccumulate == [][StoreKeepsIds]_vars

\* an upsert of a record whose externalIds is {} was written onto a stored
\* record that has an external ID
C8_Witness ==
    \E i \in Upserts :
        /\ ups[i]["st"] = "done"
        /\ MergedOnto(i)
        /\ ups[i]["newData"]["externalIds"] = EmptyMap
        /\ HasExternalId(ExistingOf(i), "Spotify")
        /\ HasExternalId(getSongBySyncId(db, ups[i]["newData"]["syncId"]), "Spotify")

\* externalIds of the merge of existing and incoming under config is the union
\* of the two maps
MergeIsUnion(existing, incoming, config) ==
    DOMAIN mergeData(existing, incoming, config)["externalIds"]
        = (DOMAIN existing["externalIds"]) \cup (DOMAIN incoming["externalIds"])

\* C9 (as amended): when two records are merged, externalIds becomes the union
\* of both maps with one ID per catalog key; for a key that both maps have the
\* incoming value replaces the existing one, and the other keys keep their value.
C9_MergeIncomingWins ==
    \A i \in Upserts :
        MergedOnto(i) =>
            /\ ups[i]["merged"]["externalIds"]
                  = mergeData(ExistingOf(i), ups[i]["newData"], songMergeConfig)["externalIds"]
            /\ \A config \in MergeConfigs :
                  LET existing == ExistingOf(i)["externalIds"]
                      incoming == ups[i]["newData"]["externalIds"]
                      merged == mergeData(ExistingOf(i), ups[i]["newData"], config)["externalIds"]
                  IN /\ MergeIsUnion(ExistingOf(i), ups[i]["newData"], config)
                     /\ \A k \in DOMAIN merged :
                           merged[k] = IF k \in DOMAIN incoming THEN incoming[k] ELSE existing[k]

\* C9 as stated: the merge is the union, and an incoming value never overwrites
\* an existing non-empty value for the same key.
C9_MergeExistingWins ==
    \A i \in Upserts :
        MergedOnto(i) =>
            \A config \in MergeConfigs :
                LET existing == ExistingOf(i)["externalIds"]
                    merged == mergeData(ExistingOf(i), ups[i]["newData"], config)["externalIds"]
                IN /\ MergeIsUnion(ExistingOf(i), ups[i]["newData"], config)
                   /\ \A k \in DOMAIN existing : Truthy(existing[k]) => merged[k] = existing[k]

\* a record with another ID for the same catalog and a record with an ID for
\* another catalog were merged onto a stored record
C9_Witness ==
    /\ \E i \in Upserts :
          /\ MergedOnto(i)
          /\ HasExternalId(ExistingOf(i), "Spotify")
          /\ HasExternalId(ups[i]["newData"], "Spotify")
          /\ ups[i]["newData"]["externalIds"]["Spotify"] # ExistingOf(i)["externalIds"]["Spotify"]
    /\ \E i \in Upserts :
          /\ MergedOnto(i)
          /\ HasExternalId(ExistingOf(i), "Spotify")
          /\ HasExternalId(ups[i]["newData"], "YouTube")
          /\ ~HasExternalId(ExistingOf(i), "YouTube")
          /\ DOMAIN ups[i]["merged"]["externalIds"] = {"Spotify", "YouTube"}

\* calls i and j are upserts of the same (table, syncId)
SameKey(i, j) ==
    /\ ups[i]["st"] # "idle"
    /\ ups[j]["st"] # "idle"
    /\ lockKeyOf(i) = lockKeyOf(j)

\* C10: upserts of the same (table, syncId) run their read-merge-write sections
\* one at a time in the order of the calls: a call has started its read only if
\* every earlier call on its key has completed; and a waiting call with no
\* earlier uncompleted call on its key is not blocked, whatever the calls on
\* other keys do.
C10_UpsertsSerialized ==
    /\ \A i, j \in Upserts :
          (i < j /\ SameKey(i, j) /\ ups[j]["st"] # "waiting") => ups[i]["st"] = "done"
    /\ \A j \in Upserts :
          (/\ ups[j]["st"] = "waiting"
           /\ \A i \in Upserts : (i < j /\ SameKey(i, j)) => ups[i]["st"] = "done")
          => previousSafeResolved(j)

\* two upserts on different keys are in their sections while a third waits
\* for one of them
C10_Witness ==
    \E i, j, k \in Upserts :
        /\ ups[i]["st"] = "read"
        /\ ups[j]["st"] = "read"
        /\ ~SameKey(i, j)
        /\ ups[k]["st"] = "waiting"
        /\ SameKey(i, k)
        /\ i < k

\* call i has written its row and returned
Succeeded(i) ==
    /\ ups[i]["st"] \in {"written", "done"}
    /\ ups[i]["result"] # NoRow
    /\ ups[i]["result"]["kind"] = "return"

\* the catalogs for which call i carries an external ID
CatalogsOf(i) ==
    {c \in DOMAIN ups[i]["newData"]["externalIds"] : Truthy(ups[i]["newData"]["externalIds"][c])}

\* calls i and j are the only upserts of their key, and they carry external
\* IDs for different catalogs
ConcurrentPair(i, j) ==
    /\ i < j
    /\ SameKey(i, j)
    /\ \A k \in Upserts \ {i, j} : ups[k]["st"] = "idle" \/ ~SameKey(i, k)
    /\ CatalogsOf(i) # {}
    /\ CatalogsOf(j) # {}
    /\ CatalogsOf(i) \cap CatalogsOf(j) = {}

\* the stored row of call i's key has the external IDs that call i carries
RowHasIdsOf(i) ==
    LET row == getSongBySyncId(db, ups[i]["newData"]["syncId"])
    IN /\ row # NoRow
       /\ \A c \in CatalogsOf(i) :
             /\ HasExternalId(row, c)
             /\ row["externalIds"][c] = ups[i]["newData"]["externalIds"][c]

\* C11: no lost update: when two upserts of the same syncId that carry external
\* IDs for different catalogs have both completed, in whatever way their steps
\* were interleaved, the stored row has the external IDs of both.
C11_NoLostUpdate ==
    \A i, j \in Upserts :
        (ConcurrentPair(i, j) /\ Succeeded(i) /\ Succeeded(j))
            => (RowHasIdsOf(i) /\ RowHasIdsOf(j))

\* the second upsert was requested while the first held the lock of the key,
\* both have completed and the row has both external IDs
C11_Witness ==
    \E i, j \in Upserts :
        /\ ConcurrentPair(i, j)
        /\ ups[j]["previous"] = i
        /\ ups[i]["st"] = "done"
        /\ ups[j]["st"] = "done"
        /\ Succeeded(i)
        /\ Succeeded(j)
        /\ RowHasIdsOf(i)
        /\ RowHasIdsOf(j)

-----------------------------------------------------------------------------
(* The merge engine on its own: mergeData of src/src/squish.ts applied to a  *)
(* record, first to the entity e and then to what the earlier merges         *)
(* returned, with the entities a and b and the record itself as incoming     *)
(* data.  calc["log"] lists the incoming data of the merges made so far,     *)
(* calc["prev"] is the record before the last merge.                         *)

\* the number of merges in one run
MaxMerges == 3

MergeKinds == {"song", "album", "artist"}

EntitiesToMerge(kind) ==
    LET
        GoogleUrl(n) == <<"https:", "lh3", "googleusercontent.com", n>>

        CdnUrl(n) == <<"https:", "cdn", n>>

        \* a track of an album or of an artist
        TrackItem(id, title) == [syncId |-> id, title |-> title]

        \* songs, of one syncId, as the catalogs or the store deliver them
        SongsToMerge ==
            { [syncId |-> "s1", title |-> <<"S", "o", "n", "g">>, artists |-> <<<<"A", "b", "e">>>>,
               duration |-> 200, shortcode |-> <<"so", "1">>,
               externalIds |-> [k \in {"Spotify"} |-> "i1"]],
              [syncId |-> "s1", title |-> <<"S", "o", "n", "g", " ", "2">>, artists |-> <<<<"B", "o", "b">>, <<"A", "b", "e">>>>,
               album |-> "al1", imageUrl |-> CdnUrl("x"), explicit |-> TRUE,
               duration |-> 180,
               conversionErrors |-> [k \in {"ytmusic"} |->
                                        [attempts |-> 1, lastAttempt |-> 0, retryable |-> TRUE]],
               externalIds |-> [k \in {"Spotify", "YouTube"} |-> IF k = "Spotify" THEN "i2" ELSE "i1"]],
              [syncId |-> "s1", title |-> <<"S", "o", "n", "g">>, artists |-> <<<<"A", "b", "e">>, <<"A", "b", "e">>>>,
               imageUrl |-> GoogleUrl("g"), explicit |-> FALSE,
               externalIds |-> [k \in {"YouTube"} |-> "i1"]],
              [syncId |-> "s1", artists |-> <<<<"B", "o", "b">>>>, album |-> "al2", imageUrl |-> CdnUrl("y"),
               releaseDate |-> 1, externalIds |-> EmptyMap],
              [syncId |-> "s1", title |-> <<"S", "o", "n", "g", " ", "2">>, artists |-> <<<<"A", "b", "e">>, <<"B", "o", "b">>>>,
               imageUrl |-> GoogleUrl("h"), releaseDate |-> 0,
               externalIds |-> [k \in {"AppleMusic"} |-> "i1"]] }

        AlbumsToMerge ==
            { [syncId |-> "s1", title |-> <<"L", "P">>, artists |-> <<<<"A", "b", "e">>>>,
               externalIds |-> [k \in {"Spotify"} |-> "i1"],
               songs |-> <<TrackItem("s1", "t1")>>],
              [syncId |-> "s1", title |-> <<"L", "P", " ", "2">>, artists |-> <<<<"B", "o", "b">>, <<"A", "b", "e">>>>,
               imageUrl |-> CdnUrl("x"), releaseDate |-> 1, totalTracks |-> 2,
               externalIds |-> [k \in {"Spotify"} |-> "i2"],
               songs |-> <<TrackItem("s2", "t1"), TrackItem("s1", "t2")>>],
              [syncId |-> "s1", title |-> <<"L", "P">>, artists |-> <<<<"A", "b", "e">>>>,
               imageUrl |-> GoogleUrl("g"), totalTracks |-> 3, shortcode |-> <<"al", "1">>,
               externalIds |-> [k \in {"YouTube"} |-> "i1"],
               songs |-> <<TrackItem("s1", "t1"), TrackItem("s1", "t2")>>],
              [syncId |-> "s1", artists |-> <<<<"A", "b", "e">>, <<"A", "b", "e">>>>, imageUrl |-> CdnUrl("y"),
               externalIds |-> EmptyMap,
               songs |-> <<[title |-> "t1"], TrackItem("s2", "t2")>>],
              [syncId |-> "s1", title |-> <<"L", "P", " ", "2">>, artists |-> <<<<"B", "o", "b">>>>,
               releaseDate |-> 0, externalIds |-> [k \in {"AppleMusic"} |-> "i1"]] }

        ArtistsToMerge ==
            { [syncId |-> "s1", name |-> "n1", externalIds |-> [k \in {"Spotify"} |-> "i1"],
               tracks |-> <<TrackItem("s1", "t1")>>],
              [syncId |-> "s1", name |-> "n2", imageUrl |-> CdnUrl("x"),
               genre |-> <<"pop">>,
               externalIds |-> [k \in {"Spotify"} |-> "i2"],
               tracks |-> <<TrackItem("s2", "t1"), TrackItem("s1", "t2")>>,
               albums |-> <<TrackItem("s1", "t1")>>],
              [syncId |-> "s1", name |-> "n1", imageUrl |-> GoogleUrl("g"),
               genre |-> <<"rock">>, shortcode |-> <<"ar", "1">>,
               externalIds |-> [k \in {"YouTube"} |-> "i1"],
               tracks |-> <<TrackItem("s1", "t1"), TrackItem("s1", "t2")>>,
               albums |-> <<TrackItem("s2", "t1"), TrackItem("s1", "t2")>>],
              [syncId |-> "s1", imageUrl |-> CdnUrl("y"), externalIds |-> EmptyMap,
               tracks |-> <<[title |-> "t1"], TrackItem("s2", "t2")>>],
              [syncId |-> "s1", name |-> "n2", imageUrl |-> GoogleUrl("h"),
               externalIds |-> [k \in {"AppleMusic"} |-> "i1"]] }
    IN
        CASE kind = "song" -> SongsToMerge
          [] kind = "album" -> AlbumsToMerge
          [] kind = "artist" -> ArtistsToMerge

mergeConfigOf(kind) ==
    CASE kind = "song" -> songMergeConfig
      [] kind = "album" -> albumMergeConfig
      [] kind = "artist" -> artistMergeConfig

\* the conversion orchestrator and the store are not running
Quiet ==
    /\ db = [id \in SyncIds |-> NoRow]
    /\ locks = EmptyMap
    /\ ups = [i \in Upserts |-> IdleUpsert]
    /\ now = 0
    /\ flights = {}
    /\ fl = IdleFrame
    /\ svc = [s \in ServiceNames |-> IdleCall]
    /\ callers = [c \in Callers |-> IdleCaller]
    /\ hist = ZeroHist

machine == <<db, now, flights, fl, svc, callers, hist, locks, ups>>

InitMerge ==
    /\ Quiet
    /\ calc \in UNION {
          {[op |-> "merge", kind |-> kind, e |-> e, a |-> a, b |-> b,
            log |-> <<>>, prev |-> e, record |-> e] :
              e \in EntitiesToMerge(kind), a \in EntitiesToMerge(kind),
              b \in EntitiesToMerge(kind)} : kind \in MergeKinds}

\* record = mergeData(record, x, config) with x one of the entities a and b
MergeIncoming(x) ==
    /\ calc["op"] = "merge"
    /\ Len(calc["log"]) < MaxMerges
    /\ calc' = [calc EXCEPT !["log"] = Append(@, x),
                            !["prev"] = calc["record"],
                            !["record"] = mergeEntityData(calc["record"], calc[x], calc["kind"])]
    /\ UNCHANGED machine

\* record = mergeData(record, record, config)
MergeSelf ==
    /\ calc["op"] = "merge"
    /\ Len(calc["log"]) < MaxMerges
    /\ calc' = [calc EXCEPT !["log"] = Append(@, "self"),
                            !["prev"] = calc["record"],
                            !["record"] = mergeEntityData(calc["record"], calc["record"],
                                                          calc["kind"])]
    /\ UNCHANGED machine

\* upsertSong(x) with x one of the songs a and b, run to its end on a store
\* whose row for the syncId holds the record: the record is afterwards what
\* the store returns, and it is as before when the upsert throws
UpsertIncoming(x) ==
    LET existingRow == mapSongToInsert(calc["record"])
        newData == upsertSongInput(calc[x])
        mergedDomain == upsertMerge(existingRow, newData, songMergeConfig)
    IN /\ calc["op"] = "merge"
       /\ calc["kind"] = "song"
       /\ Len(calc["log"]) < MaxMerges
       /\ songInsertError(calc["record"]) = <<>>
       /\ calc' = [calc EXCEPT
                      !["log"] = Append(@, IF x = "a" THEN "upsert_a" ELSE "upsert_b"),
                      !["prev"] = calc["record"],
                      !["record"] = IF songInsertError(mergedDomain) = <<>>
                                    THEN mapSongRow(upsertPayload(existingRow, newData,
                                                                  songMergeConfig))
                                    ELSE calc["record"]]
       /\ UNCHANGED machine

NextMerge ==
    \/ \E x \in {"a", "b"} : MergeIncoming(x)
    \/ MergeSelf
    \/ \E x \in {"a", "b"} : UpsertIncoming(x)

SpecMerge == InitMerge /\ [][NextMerge]_vars

-----------------------------------------------------------------------------
(* Properties of the merge engine (specification SpecMerge) *)

IsUnique(seq) == \A i, j \in 1..Len(seq) : seq[i] = seq[j] => i = j

Elements(seq) == {seq[i] : i \in 1..Len(seq)}

\* the items of seq that combine_unique_objects keeps: those with a key
Keyed(seq, uniqueKey) ==
    SelectSeq(seq, LAMBDA item : Has(item, uniqueKey) /\ item[uniqueKey] # "")

\* every item has a key and no two items have the same key
IsKeyedUnique(seq, uniqueKey) ==
    /\ Keyed(seq, uniqueKey) = seq
    /\ \A i, j \in 1..Len(seq) : seq[i][uniqueKey] = seq[j][uniqueKey] => i = j

StrategyOf(kind, key) ==
    IF key \in DOMAIN mergeConfigOf(kind) THEN mergeConfigOf(kind)[key]["strategy"] ELSE "none"

LastMerge == IF calc["log"] = <<>> THEN "none" ELSE calc["log"][Len(calc["log"])]

\* the last merge merged the record into itself
SelfMerged == calc["op"] = "merge" /\ LastMerge = "self"

\* C12 (as amended): mergeData(e, e, config) returns e with every array that is
\* merged by combine_unique_primitives or combine_unique_objects de-duplicated
\* (by value, or by syncId with the items without syncId dropped) and every
\* other field as it was; it equals e when these arrays of e have no
\* duplicates, and what it returns is a fixed point of the merge.
C12_SelfMergeDeduplicates ==
    SelfMerged =>
        LET kind == calc["kind"]
            prev == calc["prev"]
            record == calc["record"]
        IN /\ DOMAIN record = DOMAIN prev
           /\ \A key \in DOMAIN prev :
                 CASE StrategyOf(kind, key) = "combine_unique_primitives" ->
                         /\ IsUnique(record[key])
                         /\ Elements(record[key]) = Elements(prev[key])
                         /\ IsUnique(prev[key]) => record[key] = prev[key]
                   [] StrategyOf(kind, key) = "combine_unique_objects" ->
                         /\ IsKeyedUnique(record[key], "syncId")
                         /\ Elements(record[key]) \subseteq Elements(prev[key])
                         /\ IsKeyedUnique(prev[key], "syncId") => record[key] = prev[key]
                   [] OTHER -> record[key] = prev[key]
           /\ mergeEntityData(record, record, kind) = record

\* C12 as stated: mergeData(e, e, config) equals e for every entity e.
C12_MergeIdempotent == SelfMerged => calc["record"] = calc["prev"]

\* a record whose artists have a duplicate was merged into itself, and so was
\* a record with two tracks of one syncId
C12_Witness ==
    /\ SelfMerged
    /\ \E key \in DOMAIN calc["prev"] :
          \/ /\ StrategyOf(calc["kind"], key) = "combine_unique_primitives"
             /\ ~IsUnique(calc["prev"][key])
             /\ Len(calc["record"][key]) < Len(calc["prev"][key])
          \/ /\ StrategyOf(calc["kind"], key) = "combine_unique_objects"
             /\ ~IsKeyedUnique(calc["prev"][key], "syncId")
             /\ Len(calc["record"][key]) < Len(calc["prev"][key])

\* e after the merge of calc[x] and then of calc[y]
MergedInOrder(x, y) ==
    mergeEntityData(mergeEntityData(calc["e"], calc[x], calc["kind"]), calc[y], calc["kind"])

\* a was merged onto e and then b
BothMerged == calc["op"] = "merge" /\ calc["log"] = <<"a", "b">>

isGoogle(url) == includes(url, <<"googleusercontent.com">>)

KeysOf(seq, uniqueKey) ==
    {Keyed(seq, uniqueKey)[i][uniqueKey] : i \in 1..Len(Keyed(seq, uniqueKey))}

\* the two incoming entities both have a value for key, and not the same one
Compete(key) ==
    /\ Has(calc["a"], key)
    /\ Has(calc["b"], key)
    /\ calc["a"][key] # calc["b"][key]

\* C13 (as amended): merging R1 then R2 onto an existing record gives the same
\* value as merging R2 then R1 for: a keep_existing field that the existing
\* record has or that R1 and R2 do not both set to different values; a
\* prefer_new field that R1 and R2 do not both set to different values; every
\* externalIds key that R1 and R2 do not both carry; the set of elements of a
\* combine_unique_primitives array and the set of keys of a
\* combine_unique_objects array (the order of the elements can differ); the
\* image URL when exactly one of the two incoming URLs is on
\* googleusercontent.com; every field without a strategy.  In the other cases
\* the arrival order decides: keep_existing takes the first value, prefer_new
\* and an externalIds key of both take the last value, and of two incoming
\* image URLs that are both off googleusercontent.com the last one wins.
C13_OrderInsensitiveWhere ==
    BothMerged =>
        LET kind == calc["kind"]
            e == calc["e"]
            a == calc["a"]
            b == calc["b"]
            ab == calc["record"]
            ba == MergedInOrder("b", "a")
        IN /\ DOMAIN ab = DOMAIN ba
           /\ \A key \in DOMAIN ab :
                 CASE StrategyOf(kind, key) = "keep_existing" ->
                         IF ~Has(e, key) /\ Compete(key)
                         THEN ab[key] = a[key] /\ ba[key] = b[key]
                         ELSE ab[key] = ba[key]
                   [] StrategyOf(kind, key) = "prefer_new" ->
                         IF Compete(key)
                         THEN ab[key] = b[key] /\ ba[key] = a[key]
                         ELSE ab[key] = ba[key]
                   [] StrategyOf(kind, key) = "merge_objects" ->
                         /\ DOMAIN ab[key] = DOMAIN ba[key]
                         /\ \A c \in DOMAIN ab[key] :
                               IF Has(a, key) /\ Has(b, key) /\ c \in DOMAIN a[key]
                                     /\ c \in DOMAIN b[key]
                               THEN ab[key][c] = b[key][c] /\ ba[key][c] = a[key][c]
                               ELSE ab[key][c] = ba[key][c]
                   [] StrategyOf(kind, key) = "combine_unique_primitives" ->
                         Elements(ab[key]) = Elements(ba[key])
                   [] StrategyOf(kind, key) = "combine_unique_objects" ->
                         KeysOf(ab[key], "syncId") = KeysOf(ba[key], "syncId")
                   [] StrategyOf(kind, key) = "custom" ->
                         IF ~Compete(key) THEN ab[key] = ba[key]
                         ELSE IF isGoogle(a[key]) # isGoogle(b[key]) THEN ab[key] = ba[key]
                         ELSE IF ~isGoogle(a[key]) THEN ab[key] = b[key] /\ ba[key] = a[key]
                         ELSE TRUE
                   [] OTHER -> ab[key] = ba[key]

\* C13 as stated: merging R1 then R2 yields the same record as merging R2 then
\* R1, the image URL included (its winner does not depend on the arrival).
C13_OrderInsensitive ==
    BothMerged => calc["record"] = MergedInOrder("b", "a")

\* two results that set different image URLs, one of them on
\* googleusercontent.com, were merged, and the other order gives another record
C13_Witness ==
    /\ BothMerged
    /\ Compete("imageUrl")
    /\ isGoogle(calc["a"]["imageUrl"]) # isGoogle(calc["b"]["imageUrl"])
    /\ calc["record"]["imageUrl"] = MergedInOrder("b", "a")["imageUrl"]
    /\ calc["record"] # MergedInOrder("b", "a")

\* the incoming data of the last merge or upsert
LastIncoming ==
    CASE LastMerge = "a" -> calc["a"]
      [] LastMerge = "b" -> calc["b"]
      [] LastMerge = "self" -> calc["prev"]
      [] LastMerge = "upsert_a" -> upsertSongInput(calc["a"])
      [] LastMerge = "upsert_b" -> upsertSongInput(calc["b"])

KeepExistingKeys(kind) ==
    {key \in DOMAIN mergeConfigOf(kind) : StrategyOf(kind, key) = "keep_existing"}

\* the last merge or upsert left every keep_existing field that had a value
\* as it was, and gave the others the incoming value or none
KeepExistingStable ==
    (calc["op"] = "merge" /\ calc["log"] # <<>>) =>
        \A key \in KeepExistingKeys(calc["kind"]) :
            IF Has(calc["prev"], key)
            THEN Has(calc["record"], key) /\ calc["record"][key] = calc["prev"][key]
            ELSE Has(calc["record"], key) =>
                    /\ Has(LastIncoming, key)
                    /\ calc["record"][key] = LastIncoming[key]

\* A was merged, then B, then A again
MergedAgain == calc["op"] = "merge" /\ calc["log"] = <<"a", "b", "a">>

\* C14 (as amended): for the fields whose strategy is keep_existing an incoming
\* value is used only when the existing value is absent, so once such a field
\* has a value no later merge or upsert changes it; consequently merging A,
\* then B, then A again leaves every keep_existing field as merging A then B
\* left it (the fields of the other strategies can change again).
C14_KeepExistingFieldsStable ==
    /\ KeepExistingStable
    /\ MergedAgain =>
          \A key \in KeepExistingKeys(calc["kind"]) :
              /\ Has(calc["record"], key) = Has(calc["prev"], key)
              /\ Has(calc["prev"], key) => calc["record"][key] = calc["prev"][key]

\* C14 as stated: keep_existing fields are stable, and merging A, then B, then
\* A again yields the same record as merging A then B once.
C14_MergeAgainSameRecord ==
    /\ KeepExistingStable
    /\ MergedAgain => calc["record"] = calc["prev"]

\* A and B, with different values for a keep_existing field, were merged and
\* A was merged again: the field kept its value, the record did not; and an
\* upsert of a song with another title left the stored title as it was
C14_Witness ==
    \/ /\ MergedAgain
       /\ \E key \in KeepExistingKeys(calc["kind"]) :
             Compete(key) /\ calc["record"][key] = calc["prev"][key]
       /\ calc["record"] # calc["prev"]
    \/ /\ calc["op"] = "merge"
       /\ LastMerge \in {"upsert_a", "upsert_b"}
       /\ Has(LastIncoming, "title")
       /\ LastIncoming["title"] # calc["prev"]["title"]
       /\ calc["record"]["title"] = calc["prev"]["title"]
       /\ calc["record"] # calc["prev"]

-----------------------------------------------------------------------------
(* generateSyncId on its own: one call with the title, the artists and the  *)
(* duration of calc, and a second call with the same title, the artists in  *)
(* some order and some duration.                                            *)

\* the number of artists of a song
MaxArtists == 2

SyncTitles ==
    { <<"S", "o", "n", "g">>,
      <<"S", "o", "n", "g", " ", "(", "f", "e", "a", "t", ".", " ", "B", "o", "b", ")">>,
      <<"A", "b", "e", " ", "-", " ", "S", "o", "n", "g">>,
      <<"S", "o", "n", "g", " ", "-", " ", "L", "i", "v", "e">> }

\* the lists of at most MaxArtists different names
ArtistLists ==
    LET
        ArtistNames ==
            { <<"A", "r", "t", "i", "s", "t">>, <<"B", "o", "b">>, <<"1">>, <<"0", "1">>, <<>> }
    IN
        UNION {{l \in [1..n -> ArtistNames] : IsUnique(l)} : n \in 0..MaxArtists}

\* durations in seconds
Durations == {0, 186, 187, 188, 192, 195}

\* the orders in which the list can be given
Orders(list) ==
    {[i \in 1..Len(list) |-> list[p[i]]] :
        p \in {q \in [1..Len(list) -> 1..Len(list)] : IsUnique(q)}}

InitSyncId ==
    /\ Quiet
    /\ calc \in {[op |-> "syncId", title |-> title, artists |-> artists, duration |-> duration,
                  first |-> NoRow, second |-> NoRow] :
                    title \in SyncTitles, artists \in ArtistLists, duration \in Durations}

\* generateSyncId(title, artists, duration)
GenerateSyncId ==
    /\ calc["op"] = "syncId"
    /\ calc["first"] = NoRow
    /\ calc' = [calc EXCEPT !["first"] =
                   [artists |-> calc["artists"], duration |-> calc["duration"],
                    result |-> generateSyncId(calc["title"], calc["artists"], calc["duration"])]]
    /\ UNCHANGED machine

\* generateSyncId(title, artists2, duration2) after the first call
GenerateAgain(artists2, duration2) ==
    /\ calc["op"] = "syncId"
    /\ calc["first"] # NoRow
    /\ calc["second"] = NoRow
    /\ artists2 \in Orders(calc["artists"])
    /\ calc' = [calc EXCEPT !["second"] =
                   [artists |-> artists2, duration |-> duration2,
                    result |-> generateSyncId(calc["title"], artists2, duration2)]]
    /\ UNCHANGED machine

NextSyncId ==
    \/ GenerateSyncId
    \/ \E artists2 \in ArtistLists, duration2 \in Durations : GenerateAgain(artists2, duration2)

SpecSyncId == InitSyncId /\ [][NextSyncId]_vars

-----------------------------------------------------------------------------
(* Properties of generateSyncId (specification SpecSyncId) *)

\* both calls were made
CalledTwice == calc["op"] = "syncId" /\ calc["second"] # NoRow

\* both calls returned, and with the same syncId
SameSyncId ==
    /\ calc["first"]["result"]["kind"] = "return"
    /\ calc["first"]["result"] = calc["second"]["result"]

\* the calls had the same title and artists, and their durations were d1 and d2
CalledWithDurations(d1, d2) ==
    /\ CalledTwice
    /\ calc["first"]["artists"] = calc["second"]["artists"]
    /\ calc["first"]["result"]["kind"] = "return"
    /\ calc["first"]["duration"] = d1
    /\ calc["second"]["duration"] = d2

\* two durations give the same syncId exactly when they bucket to the same
\* value, and the bucket of a duration is the multiple of 5 nearest to it
BucketDecides ==
    \A d1, d2 \in Durations :
        CalledWithDurations(d1, d2) =>
            /\ SameSyncId <=> bucketDuration(d1) = bucketDuration(d2)
            /\ bucketDuration(d1) % 5 = 0
            /\ bucketDuration(d1) - 2 <= d1
            /\ d1 <= bucketDuration(d1) + 2

\* C15 (as amended): durations are bucketed as round(seconds / 5) * 5 before
\* hashing; with equal title and artists the durations 186 and 187 fall in the
\* same bucket (185) and give the same syncId, while 188 (bucket 190) and 195
\* give a different syncId; in general two durations give the same syncId
\* exactly when they bucket to the same value.
C15_BucketOfNearestFive ==
    /\ BucketDecides
    /\ CalledWithDurations(186, 187) => SameSyncId
    /\ CalledWithDurations(186, 188) => ~SameSyncId
    /\ CalledWithDurations(186, 195) => ~SameSyncId

\* C15 as stated: 186 and 188 fall in the same bucket and give the same
\* syncId, 195 gives a different one, and two durations give the same syncId
\* exactly when they bucket to the same value.
C15_SameBucket186And188 ==
    /\ BucketDecides
    /\ CalledWithDurations(186, 188) => SameSyncId
    /\ CalledWithDurations(186, 195) => ~SameSyncId

\* generateSyncId("Song", ["Artist"], 186) and generateSyncId("Song",
\* ["Artist"], 187) returned the same syncId
C15_Witness ==
    /\ CalledWithDurations(186, 187)
    /\ calc["title"] = <<"S", "o", "n", "g">>
    /\ calc["artists"] = <<<<"A", "r", "t", "i", "s", "t">>>>
    /\ SameSyncId

\* the second call had the duration of the first and its artists in an order
\* of their own
CalledWithPermutation ==
    /\ CalledTwice
    /\ calc["first"]["duration"] = calc["second"]["duration"]
    /\ calc["second"]["artists"] \in Orders(calc["first"]["artists"])

\* C16: generateSyncId is deterministic and independent of the order of the
\* artists: two calls with the same title, the same duration and artist lists
\* that are permutations of each other give the same result.
C16_ArtistOrderIndependent ==
    CalledWithPermutation => calc["first"]["result"] = calc["second"]["result"]

\* the artists were given in two different orders and the calls returned the
\* same syncId
C16_Witness ==
    /\ CalledWithPermutation
    /\ calc["first"]["artists"] # calc["second"]["artists"]
    /\ SameSyncId

-----------------------------------------------------------------------------
(* categorizeError alone: every message of up to MaxWords words over the     *)
(* words of the keyword patterns is classified.                              *)

MaxWords == 3

InitCategorize ==
    LET
        \* the words of the patterns of categorizeError, some with a capital, and a
        \* word that is in no pattern
        MessageWords ==
            {"not", "found", "no", "result", "song", "artist", "album",
             "rate", "limit", "too", "many", "requests", "429",
             "network", "timeout", "econnrefused", "fetch", "failed",
             "invalid", "missing", "required",
             "No", "Not", "Network", "Invalid", "error"}

        ErrorMessages == UNION {[1..n -> MessageWords] : n \in 0..MaxWords}
    IN
        /\ Quiet
        /\ calc \in {[op |-> "categorize", message |-> m, result |-> NoRow] : m \in ErrorMessages}

\* categorizeError(new Error(message))
Categorize ==
    /\ calc["op"] = "categorize"
    /\ calc["result"] = NoRow
    /\ calc' = [calc EXCEPT !["result"] = categorizeError(calc["message"])]
    /\ UNCHANGED machine

NextCategorize == Categorize

SpecCategorize == InitCategorize /\ [][NextCategorize]_vars

-----------------------------------------------------------------------------
(* Properties of categorizeError (specification SpecCategorize) *)

ErrorTypes == {"not_found", "rate_limit", "network", "invalid_data", "unknown"}

\* the keyword patterns of each category
Keywords ==
    [not_found |-> {<<"not", "found">>, <<"no", "result">>, <<"no", "song", "found">>,
                    <<"no", "artist", "found">>, <<"no", "album", "found">>},
     rate_limit |-> {<<"rate", "limit">>, <<"too", "many", "requests">>, <<"429">>},
     network |-> {<<"network">>, <<"timeout">>, <<"econnrefused">>, <<"fetch", "failed">>},
     invalid_data |-> {<<"invalid">>, <<"missing">>, <<"required">>}]

CategoryOrder == <<"not_found", "rate_limit", "network", "invalid_data">>

\* the lower-cased message contains a keyword of the category
Mentions(message, category) ==
    \E k \in Keywords[category] :
        \E i \in 1..Len(message) :
            /\ i + Len(k) - 1 <= Len(message)
            /\ \A j \in 1..Len(k) : toLowerCase(message)[i + j - 1] = k[j]

\* the categories of CategoryOrder that the message mentions, as positions
Mentioned(message) == {n \in 1..Len(CategoryOrder) : Mentions(message, CategoryOrder[n])}

Classified == calc["op"] = "categorize" /\ calc["result"] # NoRow

\* C18: every message is classified as exactly one of the five error types:
\* the first category, in the order not_found, rate_limit, network,
\* invalid_data, of which the message contains a keyword, and unknown when it
\* contains none; retryable is true exactly for rate_limit, network, unknown.
C18_ClassificationByPriority ==
    Classified =>
        LET result == calc["result"]
            mentioned == Mentioned(calc["message"])
        IN /\ DOMAIN result = {"errorType", "retryable"}
           /\ result["errorType"] \in ErrorTypes
           /\ IF mentioned = {} THEN result["errorType"] = "unknown"
              ELSE \E n \in mentioned :
                     /\ \A m \in mentioned : n <= m
                     /\ result["errorType"] = CategoryOrder[n]
           /\ result["retryable"] = (result["errorType"] \in {"rate_limit", "network", "unknown"})

\* a message with keywords of three categories has been classified as the
\* first of them in the order
C18_Witness ==
    /\ Classified
    /\ Mentioned(calc["message"]) = {2, 3, 4}
    /\ calc["result"] = [errorType |-> "rate_limit", retryable |-> TRUE]

-----------------------------------------------------------------------------
(* invokeServiceMethod alone: one call, with the outcomes of the searches it *)
(* makes, for errors of every category.                                      *)

\* messages that a search throws, by the error type they are classified as
ThrownMessages ==
    [not_found |-> {<<"No", "song", "found">>, <<"Not", "found">>},
     rate_limit |-> {<<"429">>, <<"Rate", "limit", "exceeded">>},
     network |-> {<<"fetch", "failed">>, <<"Network", "timeout">>},
     invalid_data |-> {<<"Invalid", "ID">>, <<"Missing", "token">>},
     unknown |-> {<<"boom">>, <<"Internal", "server", "error">>}]

\* what one call of the search does: it returns a candidate, returns nothing,
\* or throws
SearchOutcomes ==
    AdapterOutcomes
    \cup {[kind |-> "null"]}
    \cup {[kind |-> "throw", message |-> m] : m \in UNION {ThrownMessages[c] : c \in DOMAIN ThrownMessages}}

\* invokeServiceMethod(service, InputSong, "song") has been called; calls are
\* the outcomes of the searches it has made so far
InitInvoke ==
    /\ Quiet
    /\ calc \in {[op |-> "invoke", service |-> s, attemptNumber |-> 1, calls |-> <<>>,
                  result |-> NoRow] : s \in ServiceNames}

\* the search is invoked and invokeServiceMethod returns a result
SearchReturns(outcome) ==
    LET r == invokeServiceMethod(calc["service"], InputSong, calc["attemptNumber"], outcome, now) IN
    /\ calc["op"] = "invoke"
    /\ calc["result"] = NoRow
    /\ ~r["retry"]
    /\ calc' = [calc EXCEPT !["calls"] = Append(@, outcome), !["result"] = r["result"]]
    /\ UNCHANGED machine

\* the search is invoked, throws, and invokeServiceMethod calls itself with
\* attemptNumber + 1
SearchRetried(outcome) ==
    LET r == invokeServiceMethod(calc["service"], InputSong, calc["attemptNumber"], outcome, now) IN
    /\ calc["op"] = "invoke"
    /\ calc["result"] = NoRow
    /\ r["retry"]
    /\ calc' = [calc EXCEPT !["calls"] = Append(@, outcome), !["attemptNumber"] = @ + 1]
    /\ UNCHANGED machine

NextInvoke ==
    \/ \E outcome \in SearchOutcomes : SearchReturns(outcome)
    \/ \E outcome \in SearchOutcomes : SearchRetried(outcome)

SpecInvoke == InitInvoke /\ [][NextInvoke]_vars

-----------------------------------------------------------------------------
(* Properties of invokeServiceMethod (specification SpecInvoke) *)

\* the outcome is a throw with a message of the error type
FailedAs(outcome, errorType) ==
    outcome["kind"] = "throw" /\ outcome["message"] \in ThrownMessages[errorType]

\* C20: within one invokeServiceMethod call the search is invoked at most
\* twice; an invocation is followed by another one only if it failed with an
\* error classified network or unknown; after a failure classified not_found,
\* invalid_data or rate_limit the search is not invoked again.
C20_ImmediateRetryOnce ==
    calc["op"] = "invoke" =>
        /\ Len(calc["calls"]) <= 2
        /\ \A i \in 1..Len(calc["calls"]) :
              i < Len(calc["calls"]) =>
                  \/ FailedAs(calc["calls"][i], "network")
                  \/ FailedAs(calc["calls"][i], "unknown")
        /\ \A i \in 1..Len(calc["calls"]) :
              (\E t \in {"not_found", "invalid_data", "rate_limit"} : FailedAs(calc["calls"][i], t))
                  => (i = Len(calc["calls"]) /\ calc["result"] # NoRow)

\* the search failed with a network error, was invoked a second time, was
\* rate-limited, and the call returned that failure
C20_Witness ==
    /\ calc["op"] = "invoke"
    /\ Len(calc["calls"]) = 2
    /\ FailedAs(calc["calls"][1], "network")
    /\ FailedAs(calc["calls"][2], "rate_limit")
    /\ calc["result"] # NoRow
    /\ ~calc["result"]["success"]
    /\ calc["result"]["error"]["errorType"] = "rate_limit"

\* the call has returned
InvokeReturned == calc["op"] = "invoke" /\ calc["result"] # NoRow

\* the outcome of the last search of the call
LastSearch == calc["calls"][Len(calc["calls"])]

\* the search failed: it threw, or it returned nothing
SearchFailed(outcome) == outcome["kind"] \in {"throw", "null"}

\* C21: a failure of the search (a thrown error of any category, or an empty
\* result) never leaves invokeServiceMethod as an exception: the call either
\* invokes the search once more or returns a ConversionResult with success =
\* false whose error names the catalog and carries the error type the failure
\* is classified as (not_found for an empty result) and the retryable flag of
\* that type.
C21_FailureIsAResult ==
    /\ (calc["op"] = "invoke" /\ calc["result"] = NoRow) => Len(calc["calls"]) <= 1
    /\ (InvokeReturned /\ SearchFailed(LastSearch)) =>
          LET result == calc["result"] IN
          /\ DOMAIN result = {"service", "success", "error"}
          /\ result["service"] = calc["service"]
          /\ result["success"] = FALSE
          /\ DOMAIN result["error"] =
                {"service", "timestamp", "errorType", "message", "retryable"}
          /\ result["error"]["service"] = calc["service"]
          /\ \E type \in ErrorTypes :
                /\ \/ FailedAs(LastSearch, type)
                   \/ LastSearch["kind"] = "null" /\ type = "not_found"
                /\ result["error"]["errorType"] = type
                /\ result["error"]["retryable"] = (type \in {"rate_limit", "network", "unknown"})

\* the search threw an error of unknown type, was invoked again and returned
\* nothing, and the call returned a failure of type not_found
C21_Witness ==
    /\ InvokeReturned
    /\ Len(calc["calls"]) = 2
    /\ FailedAs(calc["calls"][1], "unknown")
    /\ LastSearch["kind"] = "null"
    /\ ~calc["result"]["success"]
    /\ calc["result"]["error"]["errorType"] = "not_found"
    /\ ~calc["result"]["error"]["retryable"]

-----------------------------------------------------------------------------
(* normalizeTitle and normalizeArtists alone: every title of up to MaxChars  *)
(* characters over a letter, a capital, a digit, the space, brackets and     *)
(* punctuation, and every list of up to MaxArtists raw artist strings.       *)

MaxChars == 3

InitNormalize ==
    LET
        TitleChars == {"a", "B", "7", " ", "(", ")", "-", "!"}

        Titles == UNION {[1..n -> TitleChars] : n \in 0..MaxChars}

        \* raw artist strings: plain names, a name with an embedded x, names joined by
        \* the separators, and the empty string
        RawArtists ==
            { <<>>,
              <<"L", "e", "x", "y">>,
              <<"l", "e", "x", "y">>,
              <<"A", "b", "e">>,
              <<"A", "b", "e", " ", "x", " ", "B", "o", "b">>,
              <<"A", "b", "e", ",", " ", "B", "o", "b">>,
              <<"B", "o", "b", " ", "&", " ", "A", "b", "e">>,
              <<"B", "o", "b", "/", "A", "b", "e">>,
              <<"A", "b", "e", "MULTIPLICATION SIGN", "B", "o", "b">>,
              <<"A", "b", "e", " ", "a", "n", "d", " ", "B", "o", "b">>,
              <<"B", "o", "b", " ", "w", "i", "t", "h", " ", "L", "e", "x", "y">>,
              <<"!", "!">> }

        RawLists == UNION {[1..n -> RawArtists] : n \in 0..MaxArtists}
    IN
        /\ Quiet
        /\ calc \in {[op |-> "title", title |-> t, result |-> NoRow] : t \in Titles}
                    \cup {[op |-> "artists", artists |-> l, result |-> NoRow] : l \in RawLists}

\* normalizeTitle(title)
NormalizeTitle ==
    /\ calc["op"] = "title"
    /\ calc["result"] = NoRow
    /\ calc' = [calc EXCEPT !["result"] = [value |-> normalizeTitle(calc["title"])]]
    /\ UNCHANGED machine

\* normalizeArtists(artists)
NormalizeArtists ==
    /\ calc["op"] = "artists"
    /\ calc["result"] = NoRow
    /\ calc' = [calc EXCEPT !["result"] = normalizeArtists(calc["artists"])]
    /\ UNCHANGED machine

NextNormalize ==
    \/ NormalizeTitle
    \/ NormalizeArtists

SpecNormalize == InitNormalize /\ [][NextNormalize]_vars

-----------------------------------------------------------------------------
(* Properties of normalizeTitle and normalizeArtists (specification          *)
(* SpecNormalize)                                                            *)

TitleNormalized == calc["op"] = "title" /\ calc["result"] # NoRow

\* C22: normalizeTitle never returns an empty string for a non-empty input,
\* also when the input is made only of punctuation, separators or whitespace.
C22_TitleNeverEmpty ==
    (TitleNormalized /\ calc["title"] # <<>>) => calc["result"]["value"] # <<>>

\* the aggressive cleanup removes everything of the title "(a)", which is all
\* in brackets, and the fallback returns "a"
C22_Witness ==
    /\ TitleNormalized
    /\ calc["title"] = <<"(", "a", ")">>
    /\ calc["result"]["value"] = <<"a">>

ArtistsNormalized == calc["op"] = "artists" /\ calc["result"] # NoRow

\* C23: for every list of raw artist strings, also one with empty entries,
\* normalizeArtists returns a list: the normalized names, none of them empty,
\* without duplicates and in the order of their first occurrence; a name is
\* never split at an embedded letter x, so ["Lexy"] gives ["lexy"] and
\* ["Abe x Bob"] gives ["abe x bob"].
C23_ArtistNamesDeduplicated ==
    ArtistsNormalized =>
        /\ DOMAIN calc["result"] = {"value"}
        /\ IsUnique(calc["result"]["value"])
        /\ \A i \in 1..Len(calc["result"]["value"]) : calc["result"]["value"][i] # <<>>
        /\ calc["artists"] = <<<<"L", "e", "x", "y">>>>
              => calc["result"]["value"] = <<<<"l", "e", "x", "y">>>>
        /\ calc["artists"] = <<<<"A", "b", "e", " ", "x", " ", "B", "o", "b">>>>
              => calc["result"]["value"] = <<<<"a", "b", "e", " ", "x", " ", "b", "o", "b">>>>
        /\ calc["artists"] = <<<<"B", "o", "b", " ", "&", " ", "A", "b", "e">>,
                               <<"A", "b", "e", ",", " ", "B", "o", "b">>>>
              => calc["result"]["value"] = <<<<"b", "o", "b">>, <<"a", "b", "e">>>>

\* of the list ["Bob with Lexy", "lexy"], without an empty entry, the names
\* bob and lexy are returned once each, in the order of their first occurrence
C23_Witness ==
    /\ ArtistsNormalized
    /\ calc["artists"] = <<<<"B", "o", "b", " ", "w", "i", "t", "h", " ", "L", "e", "x", "y">>,
                           <<"l", "e", "x", "y">>>>
    /\ calc["result"] = [value |-> <<<<"b", "o", "b">>, <<"l", "e", "x", "y">>>>]

-----------------------------------------------------------------------------
(* Properties of the opportunistic retry and of the outer retry loop        *)
(* (specification Spec)                                                      *)

\* the retry step is over and the search of catalog s, which had stored error
\* history, has this result
RetriedWith(s, success) ==
    /\ fl["retrying"] # <<>>
    /\ s \in Retrying
    /\ svc[s]["st"] = "done"
    /\ svc[s]["result"]["success"] = success

\* C24: when a catalog with stored error history is retried and its search
\* succeeds, the record that the retry step leaves in the store has no
\* conversionErrors entry for that catalog.
C24_RetrySuccessClearsError ==
    [][\A s \in ServiceNames :
          (RetrySave /\ RetriedWith(s, TRUE)) => s \notin DOMAIN ErrorsOf(Stored')]_vars

\* the request is over, the retried search of youtube music succeeded and the
\* request returned from the retry step
C24_Witness ==
    /\ FlightReturned
    /\ RetriedWith("ytmusic", TRUE)
    /\ hasDesired(fl["outcome"]["value"], "ytmusic")
    /\ "ytmusic" \in DOMAIN ErrorsOf(hist["firstItem"])

\* C25: when a catalog with stored error history is retried and its search
\* fails again, the entry of the catalog in the stored record has one attempt
\* more than before and the timestamp and message of the new failure.
C25_RetryFailureCounted ==
    [][\A s \in ServiceNames :
          (RetrySave /\ RetriedWith(s, FALSE)) =>
              /\ s \in DOMAIN ErrorsOf(Stored')
              /\ ErrorsOf(Stored')[s]["attempts"] = ErrorsOf(Stored)[s]["attempts"] + 1
              /\ ErrorsOf(Stored')[s]["lastAttempt"] = svc[s]["result"]["error"]["timestamp"]
              /\ ErrorsOf(Stored')[s]["lastError"] = svc[s]["result"]["error"]["message"]]_vars

\* the request is over, the retried search of youtube music failed at time 1,
\* one cooldown after the stored failure, and the request returned from the
\* retry step
C25_Witness ==
    /\ FlightReturned
    /\ RetriedWith("ytmusic", FALSE)
    /\ svc["ytmusic"]["result"]["error"]["timestamp"] = 1
    /\ ErrorsOf(hist["firstItem"])["ytmusic"]["attempts"] = 1

-----------------------------------------------------------------------------
(* The conversions when the re-fetch poll may not see the upserted row       *)
(* (specification SpecRefetch)                                               *)

\* how many reads of the re-fetch poll come back empty before the upserted row
\* is visible to the reader: none, all but the last, or all of them
Lags == {0, AvailabilityAttempts - 1, AvailabilityAttempts}

\* one call of convertSong and the conversion it starts
NextRefetch ==
    \/ \E c \in Callers, d \in ServiceNames : StartFlight(c, d)
    \/ LookupMiss
    \/ LookupRetry
    \/ LookupFound
    \/ LookupNotFound
    \/ \E s \in ServiceNames : ServiceRespond(s)
    \/ \E s \in ServiceNames : ServiceRetry(s)
    \/ RetryProcess
    \/ RetrySave
    \/ AggregateNone
    \/ AggregatePersist
    \/ Refetch(Lags)
    \/ PartialSave
    \/ LastResortFound
    \/ LastResortMiss
    \/ LastResortGiveUp
    \/ Tick
    \/ ExternalUpsert

SpecRefetch == Init /\ [][NextRefetch]_vars

\* executeUnifiedConvert throws and the retry wrapper catches
ThrowStep ==
    /\ fl["pc"] \in {"fanout", "refetch"}
    /\ fl'["pc"] \in {"lookup", "lastResort"}
    /\ fl'["lastError"] # NoRow

\* C26: within one flight the conversion sequence is executed at most 3 times,
\* the first execution starts when the flight starts (on an instance that has
\* run no flight, or after the flight before it has settled), an execution
\* after the first starts only when the previous one threw, the
\* last-resort poll starts only when the third execution threw, a re-fetch
\* poll reads the store at most 8 times and the last-resort poll at most 20
\* times.
C26_OuterRetryBounded ==
    [][/\ fl'["attempt"] <= maxAttempts
       /\ (fl'["pc"] = "lookup" /\ fl["pc"] # "lookup") =>
             \/ fl["pc"] \in {"idle", "done"} /\ fl'["attempt"] = 1
             \/ ThrowStep /\ fl'["attempt"] = fl["attempt"] + 1
       /\ fl'["attempt"] # fl["attempt"] => fl'["pc"] = "lookup"
       /\ (fl'["pc"] = "lastResort" /\ fl["pc"] # "lastResort") =>
             ThrowStep /\ fl["attempt"] = maxAttempts /\ fl'["poll"] = 0
       /\ (fl["pc"] = "refetch" /\ fl'["pc"] \in {"done", "partialSave"}) =>
             fl'["poll"] \in 1..AvailabilityAttempts
       /\ fl["pc"] = "lastResort" =>
             /\ fl'["poll"] <= ExistingResultAttempts
             /\ fl'["pc"] = "done" =>
                   IF fl'["outcome"]["kind"] = "return"
                   THEN fl["poll"] + 1 <= ExistingResultAttempts
                   ELSE fl["poll"] = ExistingResultAttempts]_vars

\* three executions threw, the last-resort poll read the store 20 times and
\* found no record with the desired ID, and the flight threw the last error
C26_Witness ==
    /\ FlightThrew
    /\ fl["attempt"] = maxAttempts
    /\ fl["poll"] = ExistingResultAttempts
    /\ fl["outcome"] = Thrown(fl["lastError"])

-----------------------------------------------------------------------------
(* Properties of the last-resort poll (specification Spec)                   *)

\* a step of waitForExistingConversionResult or of what follows it
LastResortStep == fl["pc"] = "lastResort" /\ fl' # fl

\* C27: after all outer attempts have thrown, a poll that finds in the store a
\* record with the desired external ID makes the call return that record; when
\* no poll finds one the call throws the error of the last attempt.  The
\* callers of the flight receive that outcome.
C27_LastResortOutcome ==
    [][/\ (fl["pc"] = "fanout" /\ ThrowStep) =>
             fl'["lastError"] =
                conversionFailure(fl["desired"],
                   errorSummary(aggregate(fl["dbItem"], fanoutResults, "song", now)["failed"]),
                   NoRow)
       /\ LastResortStep =>
             IF /\ fl["poll"] < ExistingResultAttempts
                /\ Stored # NoRow
                /\ hasDesired(Stored, fl["desired"])
             THEN fl'["pc"] = "done" /\ fl'["outcome"] = Returned(Stored)
             ELSE IF fl["poll"] < ExistingResultAttempts
             THEN /\ fl'["pc"] = "lastResort"
                  /\ fl'["poll"] = fl["poll"] + 1
                  /\ fl'["lastError"] = fl["lastError"]
             ELSE fl'["pc"] = "done" /\ fl'["outcome"] = Thrown(fl["lastError"])
       /\ (LastResortStep /\ fl'["pc"] = "done") =>
             \A c \in Callers :
                callers[c]["st"] = "waiting" =>
                   /\ callers'[c]["st"] = "settled"
                   /\ callers'[c]["outcome"] = fl'["outcome"]]_vars

\* three attempts threw, another process stored the song with the desired ID
\* while the poll was running, and both callers received the stored record
C27_Witness ==
    /\ FlightReturned
    /\ fl["attempt"] = maxAttempts
    /\ fl["lastError"] # NoRow
    /\ fl["dbItem"] = NoRow /\ fl["item"] = NoRow
    /\ fl["poll"] = 2
    /\ fl["outcome"]["value"] = Stored
    /\ hasDesired(Stored, fl["desired"])
    /\ \A c \in Callers : Settled(c) /\ callers[c]["outcome"] = fl["outcome"]

-----------------------------------------------------------------------------
(* Termination (specification SpecTerminates)                                *)

\* a step of the conversion body: a store call or an adapter call completes
\* and the code that awaits it runs up to its next call
FlightStep ==
    \/ LookupMiss
    \/ LookupRetry
    \/ LookupFound
    \/ LookupNotFound
    \/ \E s \in ServiceNames : ServiceRespond(s)
    \/ \E s \in ServiceNames : ServiceRetry(s)
    \/ RetryProcess
    \/ RetrySave
    \/ AggregateNone
    \/ AggregatePersist
    \/ Refetch(Lags)
    \/ PartialSave
    \/ LastResortFound
    \/ LastResortMiss
    \/ LastResortGiveUp

\* every adapter call and every store call eventually completes
SpecTerminates == Init /\ [][NextRefetch]_vars /\ WF_vars(FlightStep)

\* C28: when every adapter call and every store call eventually completes, every
\* call of convertSong eventually returns a record or throws.
C28_EveryCallSettles ==
    (\E c \in Callers : callers[c]["st"] = "waiting")
        ~> (\A c \in Callers : callers[c]["st"] # "waiting")

\* the call that went through every loop to its end: the searches were retried,
\* three executions threw, the poll read 20 times, and the caller has the error
C28_Witness ==
    /\ Settled(1)
    /\ callers[1]["outcome"] = Thrown(fl["lastError"])
    /\ fl["attempt"] = maxAttempts
    /\ fl["poll"] = ExistingResultAttempts
    /\ hist["ok"] = {}

-----------------------------------------------------------------------------
(* The flight map and the reactions of the flight promises (specification    *)
(* SpecFlights): withConversionFlight for one key, with the promise jobs in  *)
(* the order in which the job queue runs them.  calc holds                   *)
(*   conversionFlights  the promise registered under the key, 0 for none     *)
(*   promises           the flight promises in the order of their creation   *)
(*   jobs               the queue of promise jobs                            *)
(*   calls              what each caller's call of convertSong has done      *)

BothWays == {"fulfilled", "rejected"}

\* "await" of the promise by the caller: a reaction on a pending promise, a job
\* at once on a settled one; stale records that the promise was settled
awaitFlight(state, c, promise, fresh) ==
    LET reaction == [kind |-> "deliver", caller |-> c, promise |-> promise, on |-> BothWays]
        settled == state["promises"][promise]["state"] # "pending"
    IN [state EXCEPT !["calls"][c] = [st |-> "awaiting", promise |-> promise, fresh |-> fresh,
                                      stale |-> settled, outcome |-> "none"],
                     !["promises"][promise]["reactions"] =
                         IF settled THEN @ ELSE Append(@, reaction),
                     !["jobs"] = IF settled THEN Append(@, reaction) ELSE @]

\* a withConversionFlight whose cleanup is registered for fulfilment only
withFlightThenCleanup(state, c) ==
    IF state["conversionFlights"] # 0
    THEN awaitFlight(state, c, state["conversionFlights"], FALSE)
    ELSE LET flightPromise == Len(state["promises"]) + 1
             cleanup == [kind |-> "cleanup", promise |-> flightPromise, on |-> {"fulfilled"}]
         IN awaitFlight(
               [state EXCEPT !["promises"] =
                                 Append(@, [state |-> "pending", reactions |-> <<cleanup>>,
                                            finishing |-> FALSE, cleaned |-> FALSE]),
                             !["conversionFlights"] = flightPromise],
               c, flightPromise, TRUE)

\* withConversionFlight called by c, and the await of the promise it returns
withConversionFlight(state, c) ==
    IF state["conversionFlights"] # 0
    THEN awaitFlight(state, c, state["conversionFlights"], FALSE)
    ELSE LET flightPromise == Len(state["promises"]) + 1
             cleanup == [kind |-> "cleanup", promise |-> flightPromise, on |-> BothWays]
         IN awaitFlight(
               [state EXCEPT !["promises"] =
                                 Append(@, [state |-> "pending", reactions |-> <<cleanup>>,
                                            finishing |-> FALSE, cleaned |-> FALSE]),
                             !["conversionFlights"] = flightPromise],
               c, flightPromise, TRUE)

\* one promise job run on the state from which it was taken
runJob(state, job) ==
    CASE job["kind"] = "call" -> withConversionFlight(state, job["caller"])
      [] job["kind"] = "finish" ->
            [state EXCEPT !["promises"][job["promise"]]["state"] = job["outcome"],
                          !["jobs"] = @ \o SelectSeq(state["promises"][job["promise"]]["reactions"],
                                                     LAMBDA r : job["outcome"] \in r["on"])]
      [] job["kind"] = "cleanup" ->
            [state EXCEPT !["conversionFlights"] = IF @ = job["promise"] THEN 0 ELSE @,
                          !["promises"][job["promise"]]["cleaned"] = TRUE]
      [] job["kind"] = "deliver" ->
            [state EXCEPT !["calls"][job["caller"]]["st"] = "done",
                          !["calls"][job["caller"]]["outcome"] =
                              state["promises"][job["promise"]]["state"]]

InitFlights ==
    /\ Quiet
    /\ calc = [op |-> "flights", conversionFlights |-> 0, promises |-> <<>>, jobs |-> <<>>,
               calls |-> [c \in Callers |-> [st |-> "idle", promise |-> 0, fresh |-> FALSE,
                                             stale |-> FALSE, outcome |-> "none"]]]

\* the application queues a job that calls convertSong
EnqueueCall(c) ==
    /\ calc["op"] = "flights"
    /\ calc["calls"][c]["st"] = "idle"
    /\ calc' = [calc EXCEPT !["calls"][c]["st"] = "queued",
                            !["jobs"] = Append(@, [kind |-> "call", caller |-> c])]
    /\ UNCHANGED machine

\* the last call that the body of a flight awaits completes: the job that ends
\* the body, and settles the flight promise, is queued
EnqueueFinish(promise, outcome) ==
    /\ calc["op"] = "flights"
    /\ promise \in 1..Len(calc["promises"])
    /\ calc["promises"][promise]["state"] = "pending"
    /\ ~calc["promises"][promise]["finishing"]
    /\ calc' = [calc EXCEPT !["promises"][promise]["finishing"] = TRUE,
                            !["jobs"] = Append(@, [kind |-> "finish", promise |-> promise,
                                                   outcome |-> outcome])]
    /\ UNCHANGED machine

\* the job at the head of the queue runs
RunJob ==
    /\ calc["op"] = "flights"
    /\ calc["jobs"] # <<>>
    /\ calc' = runJob([calc EXCEPT !["jobs"] = Tail(@)], Head(calc["jobs"]))
    /\ UNCHANGED machine

NextFlights ==
    \/ \E c \in Callers : EnqueueCall(c)
    \/ \E promise \in 1..NumCallers, outcome \in BothWays : EnqueueFinish(promise, outcome)
    \/ RunJob

SpecFlights == InitFlights /\ [][NextFlights]_vars

-----------------------------------------------------------------------------
(* Properties of the flight map (specification SpecFlights) *)

FlightPromises == 1..Len(calc["promises"])

Unsettled(promise) == calc["promises"][promise]["state"] = "pending"

Registered(promise) == calc["conversionFlights"] = promise

\* the position of the cleanup job of the promise in the queue, 0 for none
CleanupAt(promise) ==
    LET at == {i \in 1..Len(calc["jobs"]) :
                  /\ calc["jobs"][i]["kind"] = "cleanup"
                  /\ calc["jobs"][i]["promise"] = promise}
    IN IF at = {} THEN 0 ELSE CHOOSE i \in at : TRUE

\* the call of c was given a promise in this step
GivenPromise(c) ==
    /\ calc["calls"][c]["st"] = "queued"
    /\ calc'["calls"][c]["st"] = "awaiting"

\* C29 as stated: the key has an entry exactly while a conversion for it is
\* unsettled, and no call receives a flight that had settled when it was made.
C29_EntryExactlyWhileUnsettled ==
    /\ \A promise \in FlightPromises : Registered(promise) <=> Unsettled(promise)
    /\ \A c \in Callers : ~calc["calls"][c]["stale"]

\* C29 as the code has it: an unsettled flight is registered; a settled flight
\* stays registered only until its cleanup job runs, which is queued at the
\* settlement, fulfilled or rejected, ahead of the job of every caller; the
\* entry changes only by the registration of a new flight under a free key and
\* by the cleanup of the registered flight; a call that runs after the cleanup
\* starts a fresh conversion, and a call that runs between the settlement and
\* the cleanup receives the settled flight.
C29_EntryUntilCleanup ==
    /\ [](\A promise \in FlightPromises :
             /\ Unsettled(promise) => Registered(promise)
             /\ (Registered(promise) /\ ~Unsettled(promise)) =>
                   /\ CleanupAt(promise) # 0
                   /\ \A i \in 1..Len(calc["jobs"]) :
                         (/\ calc["jobs"][i]["kind"] = "deliver"
                          /\ calc["jobs"][i]["promise"] = promise) => CleanupAt(promise) < i
             /\ \A c \in Callers :
                   (calc["calls"][c]["st"] = "done" /\ calc["calls"][c]["promise"] = promise)
                      => /\ ~Registered(promise)
                         /\ calc["calls"][c]["outcome"] = calc["promises"][promise]["state"])
    /\ [][/\ calc'["conversionFlights"] # calc["conversionFlights"] =>
                \/ /\ calc["conversionFlights"] = 0
                   /\ calc'["conversionFlights"] = Len(calc["promises"]) + 1
                \/ /\ calc'["conversionFlights"] = 0
                   /\ Head(calc["jobs"]) = [kind |-> "cleanup",
                                           promise |-> calc["conversionFlights"], on |-> BothWays]
          /\ \A c \in Callers :
                GivenPromise(c) =>
                   IF calc["conversionFlights"] = 0
                   THEN /\ calc'["calls"][c]["fresh"]
                        /\ calc'["calls"][c]["promise"] = Len(calc["promises"]) + 1
                        /\ calc'["promises"][Len(calc["promises"]) + 1]["state"] = "pending"
                   ELSE /\ ~calc'["calls"][c]["fresh"]
                        /\ calc'["calls"][c]["promise"] = calc["conversionFlights"]
                        /\ ~calc["promises"][calc["conversionFlights"]]["cleaned"]]_vars

\* the first flight was rejected; the second call ran after the cleanup and
\* started a fresh conversion, which was fulfilled and cleaned up
C29_Witness ==
    /\ calc["op"] = "flights"
    /\ Len(calc["promises"]) = 2
    /\ calc["promises"][1]["state"] = "rejected"
    /\ calc["calls"][2] = [st |-> "done", promise |-> 2, fresh |-> TRUE, stale |-> FALSE,
                           outcome |-> "fulfilled"]
    /\ calc["calls"][1]["outcome"] = "rejected"
    /\ calc["conversionFlights"] = 0

-----------------------------------------------------------------------------
(* Properties of the image URL rule (specification SpecMerge) *)

\* the record had an image URL before the last merge or upsert, and the
\* incoming data brought one
ImagesMet ==
    /\ calc["op"] = "merge"
    /\ calc["log"] # <<>>
    /\ Has(calc["prev"], "imageUrl")
    /\ calc["prev"]["imageUrl"] # <<>>
    /\ Has(LastIncoming, "imageUrl")
    /\ LastIncoming["imageUrl"] # <<>>

\* the record has an image URL off googleusercontent.com
OffGoogle(record) ==
    /\ Has(record, "imageUrl")
    /\ record["imageUrl"] # <<>>
    /\ ~isGoogle(record["imageUrl"])

\* C30: when a merge meets two non-empty image URLs and exactly one of them is
\* on googleusercontent.com, the other one is the merged URL, whichever of the
\* two is the existing one; otherwise the incoming URL is the merged URL.  A
\* record whose image URL is off googleusercontent.com has, after every merge
\* and every upsert, an image URL off googleusercontent.com.
C30_ImageUrlPreference ==
    /\ ImagesMet =>
          LET existingUrl == calc["prev"]["imageUrl"]
              newUrl == LastIncoming["imageUrl"]
          IN /\ Has(calc["record"], "imageUrl")
             /\ calc["record"]["imageUrl"] =
                   IF isGoogle(existingUrl) # isGoogle(newUrl)
                   THEN (IF isGoogle(existingUrl) THEN newUrl ELSE existingUrl)
                   ELSE newUrl
    /\ (calc["op"] = "merge" /\ calc["log"] # <<>> /\ OffGoogle(calc["prev"]))
          => OffGoogle(calc["record"])
    /\ (calc["op"] = "merge" /\ OffGoogle(calc["e"])) => OffGoogle(calc["record"])

\* a record with an image URL off googleusercontent.com went through the
\* largest number of merges, the last of which brought a URL on
\* googleusercontent.com, and an earlier merge replaced its URL by another
C30_Witness ==
    /\ ImagesMet
    /\ Len(calc["log"]) = MaxMerges
    /\ OffGoogle(calc["e"])
    /\ isGoogle(LastIncoming["imageUrl"])
    /\ calc["record"]["imageUrl"] = calc["prev"]["imageUrl"]
    /\ calc["record"]["imageUrl"] # calc["e"]["imageUrl"]

-----------------------------------------------------------------------------
(* The frame of mergeData (specification SpecMerge) *)

\* the last step was a call of mergeData on the record
MergedDirectly == calc["op"] = "merge" /\ LastMerge \in {"a", "b", "self"}

\* the keys that the last mergeData could change: those with a strategy and
\* with an incoming value
TouchedKeys == (DOMAIN LastIncoming) \cap (DOMAIN mergeConfigOf(calc["kind"]))

\* C31: mergeData(existing, newData, config) has the fields of existing and
\* the fields of newData that have a strategy; every field of existing that
\* has no strategy or no incoming value is in the result as it is in
\* existing, and a field of newData that has no strategy and is not in
\* existing is not in the result; the entities passed to the merges stay as
\* they were.
C31_MergeFrame ==
    /\ [](MergedDirectly =>
            /\ DOMAIN calc["record"] = (DOMAIN calc["prev"]) \cup TouchedKeys
            /\ \A key \in (DOMAIN calc["prev"]) \ TouchedKeys :
                  calc["record"][key] = calc["prev"][key])
    /\ [][calc["op"] = "merge" =>
            /\ calc'["e"] = calc["e"]
            /\ calc'["a"] = calc["a"]
            /\ calc'["b"] = calc["b"]
            /\ calc'["prev"] = calc["record"]]_vars

\* the record and the incoming entity of the last merge both had a value,
\* not the same, for a field without strategy, the incoming entity had a
\* field without strategy that the record had not, and the merge changed
\* another field of the record
C31_Witness ==
    /\ MergedDirectly
    /\ \E key \in ((DOMAIN calc["prev"]) \cap (DOMAIN LastIncoming)) \ TouchedKeys :
          /\ LastIncoming[key] # calc["prev"][key]
          /\ calc["record"][key] = calc["prev"][key]
    /\ \E key \in (DOMAIN LastIncoming) \ (DOMAIN calc["prev"]) :
          key \notin DOMAIN calc["record"]
    /\ \E key \in TouchedKeys \cap (DOMAIN calc["prev"]) :
          calc["record"][key] # calc["prev"][key]

-----------------------------------------------------------------------------
(* The search of the adapters: getSongBySearchQuery of SpotifyService,       *)
(* YouTubeMusicService and AppleMusicService (specification SpecSearch).     *)
(* The catalog answers a query with a list of tracks, best match first; a    *)
(* track is given by the syncId that the adapter computes for it.  What an   *)
(* adapter returns is the position of the track in the list, its syncId and  *)
(* the flag __usedFallback.                                                  *)

\* the largest number of tracks a catalog finds for a query
MaxCandidates == 4

\* the limit of the search when a syncId is expected
CandidateLimit == 3

CandidateSyncIds == {InputSyncId, OtherSyncId, "s3"}

CandidateLists == UNION {[1..n -> CandidateSyncIds] : n \in 0..MaxCandidates}

\* Array.prototype.slice(0, n)
slice(items, n) == SubSeq(items, 1, IF Len(items) < n THEN Len(items) ELSE n)

\* the first position of items with the syncId, 0 when there is none
matchIn(items, syncId) ==
    IF \E i \in 1..Len(items) : items[i] = syncId
    THEN CHOOSE i \in 1..Len(items) :
            items[i] = syncId /\ \A j \in 1..(i - 1) : items[j] # syncId
    ELSE 0

candidate(items, i, usedFallback) ==
    Returned([index |-> i, syncId |-> items[i], usedFallback |-> usedFallback])

SpotifyService_getSongBySearchQuery(found, expectedSyncId) ==
    LET items == slice(found, IF expectedSyncId # "" THEN CandidateLimit ELSE 1) IN
    IF Len(items) > 0
    THEN IF expectedSyncId # "" /\ Len(items) > 1
         THEN IF matchIn(items, expectedSyncId) # 0
              THEN candidate(items, matchIn(items, expectedSyncId), FALSE)
              ELSE candidate(items, 1, TRUE)
         ELSE IF expectedSyncId # ""
         THEN candidate(items, 1, TRUE)
         ELSE candidate(items, 1, FALSE)
    ELSE Thrown(<<"No", "song", "found">>)

YouTubeMusicService_getSongBySearchQuery(searchResults, expectedSyncId) ==
    IF Len(searchResults) = 0 THEN Thrown(<<"No", "results", "found">>)
    ELSE IF expectedSyncId # "" /\ Len(searchResults) > 1
    THEN LET topResults == slice(searchResults, CandidateLimit) IN
         IF matchIn(topResults, expectedSyncId) # 0
         THEN candidate(topResults, matchIn(topResults, expectedSyncId), FALSE)
         ELSE candidate(searchResults, 1, TRUE)
    ELSE candidate(searchResults, 1, FALSE)

\* searchForIds throws when the catalog finds nothing
AppleMusicService_getSongBySearchQuery(found, expectedSyncId) ==
    IF Len(found) = 0 THEN Thrown(<<"No", "results", "found">>)
    ELSE IF expectedSyncId # ""
    THEN LET ids == slice(found, CandidateLimit) IN
         IF matchIn(ids, expectedSyncId) # 0
         THEN candidate(ids, matchIn(ids, expectedSyncId), FALSE)
         ELSE candidate(ids, 1, TRUE)
    ELSE candidate(slice(found, 1), 1, FALSE)

\* an adapter is about to be asked for a song; found is what its catalog
\* finds; the expected syncId is "" when the argument is left out
InitSearch ==
    /\ Quiet
    /\ calc \in {[op |-> "search", service |-> service, found |-> found,
                  expectedSyncId |-> expected, result |-> NoRow] :
                     service \in ServiceNames, found \in CandidateLists,
                     expected \in {InputSyncId, ""}}

Searched(result) ==
    /\ calc["op"] = "search"
    /\ calc["result"] = NoRow
    /\ calc' = [calc EXCEPT !["result"] = result]
    /\ UNCHANGED machine

SpotifySearch ==
    /\ calc["op"] = "search" /\ calc["service"] = "spotify"
    /\ Searched(SpotifyService_getSongBySearchQuery(calc["found"], calc["expectedSyncId"]))

YouTubeMusicSearch ==
    /\ calc["op"] = "search" /\ calc["service"] = "ytmusic"
    /\ Searched(YouTubeMusicService_getSongBySearchQuery(calc["found"], calc["expectedSyncId"]))

AppleMusicSearch ==
    /\ calc["op"] = "search" /\ calc["service"] = "applemusic"
    /\ Searched(AppleMusicService_getSongBySearchQuery(calc["found"], calc["expectedSyncId"]))

NextSearch ==
    \/ SpotifySearch
    \/ YouTubeMusicSearch
    \/ AppleMusicSearch

SpecSearch == InitSearch /\ [][NextSearch]_vars

\* the candidates the adapter examines when a syncId is expected
Examined == slice(calc["found"], CandidateLimit)

\* an adapter was called with an expected syncId and its catalog found tracks
SearchedWithExpected(service) ==
    /\ calc["op"] = "search"
    /\ calc["service"] = service
    /\ calc["result"] # NoRow
    /\ calc["expectedSyncId"] # ""
    /\ Len(calc["found"]) > 0

\* the contract of the search for one adapter
SearchContract(service) ==
    SearchedWithExpected(service) =>
        /\ calc["result"]["kind"] = "return"
        /\ LET r == calc["result"]["value"] IN
           /\ r["index"] \in 1..Len(Examined)
           /\ r["syncId"] = Examined[r["index"]]
           /\ IF \E i \in 1..Len(Examined) : Examined[i] = calc["expectedSyncId"]
              THEN r["syncId"] = calc["expectedSyncId"] /\ ~r["usedFallback"]
              ELSE r["index"] = 1 /\ r["usedFallback"]

\* C32: when getSongBySearchQuery is called with an expected syncId and the
\* catalog finds at least one track, every adapter returns one of the first
\* three tracks; it returns a track with the expected syncId, without the
\* fallback flag, when one of the three has it, and the first track with the
\* fallback flag when none has it, for any number of tracks found.
C32_SearchContract == \A service \in ServiceNames : SearchContract(service)

\* the catalog of Spotify found one track, which has the expected syncId, and
\* the adapter returned it with the fallback flag
C32_Witness ==
    /\ SearchedWithExpected("spotify")
    /\ calc["found"] = <<calc["expectedSyncId"]>>
    /\ calc["result"]["kind"] = "return"
    /\ calc["result"]["value"]["syncId"] = calc["expectedSyncId"]
    /\ calc["result"]["value"]["usedFallback"]

-----------------------------------------------------------------------------
(* createShortcode and toBase62 as pure functions (specification             *)
(* SpecShortcode).  An id is a string of up to MaxIdLen characters; toBase62 *)
(* is also applied to numbers at the ends of the ranges of 1 to 6 digits.    *)

MaxIdLen == 3

\* the char codes of "0", "f" and "z"
IdCodes == {48, 102, 122}

IdStrings == UNION {[1..n -> IdCodes] : n \in 0..MaxIdLen}

\* 32-bit numbers <<hi, lo>> around 0, 62, 62^2, 62^5 = <<13979, 5088>> and 2^32
EncodedNumbers ==
    {<<hi, lo>> : hi \in {0, 1, 13978, 13979, 65535},
                  lo \in {0, 61, 62, 3843, 3844, 5087, 5088, 65535}}

InitShortcode ==
    /\ Quiet
    /\ calc \in {[op |-> "shortcode", type |-> type, id |-> id, calls |-> <<>>] :
                     type \in DOMAIN prefixMap, id \in IdStrings}
               \cup {[op |-> "encode", num |-> num, calls |-> <<>>] : num \in EncodedNumbers}

\* one call of createShortcode(id, type); calls holds what the calls returned
CreateShortcode ==
    /\ calc["op"] = "shortcode"
    /\ Len(calc["calls"]) < 2
    /\ calc' = [calc EXCEPT !["calls"] = Append(@, createShortcode(calc["id"], calc["type"]))]
    /\ UNCHANGED machine

\* toBase62(num).padStart(6, "0")
EncodeNumber ==
    /\ calc["op"] = "encode"
    /\ calc["calls"] = <<>>
    /\ calc' = [calc EXCEPT !["calls"] = <<padStart(toBase62(calc["num"]), 6, "0")>>]
    /\ UNCHANGED machine

NextShortcode ==
    \/ CreateShortcode
    \/ EncodeNumber

SpecShortcode == InitShortcode /\ [][NextShortcode]_vars

\* the position of a character in BASE62, from 0
DigitOf(char) == (CHOOSE i \in 1..Len(BASE62) : BASE62[i] = char) - 1

\* the 32-bit number <<hi, lo>> that a string of base62 digits stands for; hi
\* is above 65535 when the number does not fit in 32 bits
RECURSIVE Base62Value(_)
Base62Value(str) ==
    IF str = <<>> THEN <<0, 0>>
    ELSE LET rest == Base62Value(SubSeq(str, 1, Len(str) - 1))
             low == (rest[2] * 62) + DigitOf(str[Len(str)])
         IN <<(rest[1] * 62) + (low \div 65536), low % 65536>>

\* a 32-bit number <<hi, lo>> as its four bytes, the lowest first
BytesOf(num) == <<num[2] % 256, num[2] \div 256, num[1] % 256, num[1] \div 256>>

\* (num * 16777619) modulo 2^32 by long multiplication on bytes;
\* 16777619 = 0x01000193 has the bytes 0x93, 0x01, 0x00, 0x01
TimesPrime(num) ==
    LET x == BytesOf(num)
        c0 == x[1] * 147
        c1 == (x[2] * 147) + x[1] + (c0 \div 256)
        c2 == (x[3] * 147) + x[2] + (c1 \div 256)
        c3 == (x[4] * 147) + x[3] + x[1] + (c2 \div 256)
    IN <<((c3 % 256) * 256) + (c2 % 256), ((c1 % 256) * 256) + (c0 % 256)>>

\* FNV-1a, 32 bits: from the offset basis 2166136261 = 0x811c9dc5, for each
\* character the hash is xor-ed with the char code and multiplied by the
\* prime 16777619, modulo 2^32
RECURSIVE Fnv1a32(_)
Fnv1a32(codes) ==
    IF codes = <<>> THEN <<33052, 40389>>
    ELSE LET h == Fnv1a32(SubSeq(codes, 1, Len(codes) - 1))
         IN TimesPrime(<<h[1], BitXor(h[2], codes[Len(codes)])>>)

\* "type:id"
Hashed == CharCodes(calc["type"]) \o CharCodes(":") \o calc["id"]

\* C33: createShortcode(id, type) is the type code so, ar or al followed by
\* exactly 6 characters of BASE62 that stand, in base 62, for the 32-bit
\* FNV-1a hash of "type:id"; its length is 8; two calls with the same id and
\* type return the same shortcode.  toBase62 padded to 6 characters has 6
\* digits that stand for the number, for every 32-bit number.  (The 32-bit
\* FNV-1a hashes of "", "a" and "foobar" are 0x811c9dc5, 0xe40c292c and
\* 0xbf9cf968.)
C33_ShortcodeFormat ==
    /\ fnv1a(<<>>) = <<33052, 40389>>
    /\ fnv1a(<<97>>) = <<58380, 10540>>
    /\ fnv1a(<<102, 111, 111, 98, 97, 114>>) = <<49052, 63848>>
    /\ (calc["op"] = "shortcode" /\ calc["calls"] # <<>>) =>
          LET shortcode == calc["calls"][1]
              short == SubSeq(shortcode, 3, Len(shortcode))
          IN /\ Len(shortcode) = 8
             /\ SubSeq(shortcode, 1, 2) =
                   CASE calc["type"] = "song" -> <<"s", "o">>
                     [] calc["type"] = "artist" -> <<"a", "r">>
                     [] calc["type"] = "album" -> <<"a", "l">>
             /\ \A i \in 1..Len(short) : \E j \in 1..Len(BASE62) : short[i] = BASE62[j]
             /\ Base62Value(short) = Fnv1a32(Hashed)
             /\ \A i \in 1..Len(calc["calls"]) : calc["calls"][i] = shortcode
    /\ (calc["op"] = "encode" /\ calc["calls"] # <<>>) =>
          /\ Len(calc["calls"][1]) = 6
          /\ \A i \in 1..6 : \E j \in 1..Len(BASE62) : calc["calls"][1][i] = BASE62[j]
          /\ Base62Value(calc["calls"][1]) = calc["num"]

\* createShortcode was called twice for an id whose hash has fewer than 6
\* digits in base 62, so that the shortcode is padded
C33_Witness ==
    /\ calc["op"] = "shortcode"
    /\ Len(calc["calls"]) = 2
    /\ calc["id"] # <<>>
    /\ calc["calls"][1][3] = "0"
    /\ Len(toBase62(fnv1a(Hashed))) < 6
    /\ Len(calc["calls"][2]) = 8

-----------------------------------------------------------------------------
(* The record a caller receives (specification Spec) *)

\* convertSong has returned a record to caller c
ReturnedTo(c) ==
    /\ callers[c]["st"] = "settled"
    /\ callers[c]["outcome"]["kind"] = "return"

\* the record has the ID of the catalog or an error entry for it
Accounted(entity, desiredService) ==
    \/ hasDesired(entity, desiredService)
    \/ desiredService \in DOMAIN ErrorsOf(entity)

\* C34: a record that convertSong(song, target) returns has a non-empty
\* external ID for target or a conversionErrors entry for target, also when
\* the call joined a flight that a caller with another target started.
C34_OwnTargetAccounted ==
    \A c \in Callers :
        ReturnedTo(c) => Accounted(callers[c]["outcome"]["value"], callers[c]["desired"])

\* a caller joined the flight of a caller with another target and received a
\* record that has neither the ID of its own target nor an error entry for it
C34_Witness ==
    \E c, starter \in Callers :
        /\ ReturnedTo(c)
        /\ ReturnedTo(starter)
        /\ callers[c]["joined"]
        /\ ~callers[starter]["joined"]
        /\ callers[c]["flight"] = callers[starter]["flight"]
        /\ callers[c]["desired"] # callers[starter]["desired"]
        /\ callers[c]["outcome"] = callers[starter]["outcome"]
        /\ ~Accounted(callers[c]["outcome"]["value"], callers[c]["desired"])

-----------------------------------------------------------------------------
(* A sequence of requests for one stored song (specification SpecRequests).  *)
(* The requests come one after the other, each for a catalog whose ID the    *)
(* stored record has, so that each is answered by                            *)
(* checkDatabaseForExistingConversion; time passes between them.             *)

\* the number of requests in one run
MaxRequests == 5

\* the clock stops here; one unit is the cooldown MIN_RETRY_INTERVAL_MS
MaxClock == 4

\* checkDatabaseForExistingConversion for a song that is stored, at time t,
\* when the search of catalog s has the outcome outcomes[s]: the table
\* afterwards, the record returned as data, and the catalogs that the retry
\* step searched
checkDatabaseForExistingConversion(table, outcomes, t) ==
    LET RECURSIVE processResults(_, _, _, _)
        \* "for (const result of results)", from the i-th result on
        processResults(rows, dbItem, retrying, i) ==
            IF i > Len(retrying) THEN [table |-> rows, dbItem |-> dbItem]
            ELSE LET result == resultOf(retrying[i], outcomes[retrying[i]], t) IN
                 IF result["success"]
                 THEN processResults(upsertSongTable(rows, result["data"]),
                                     retrySuccessClear(upsertSongResult(rows, result["data"]),
                                                       result["service"]),
                                     retrying, i + 1)
                 ELSE processResults(rows, retryFailureUpdate(dbItem, result), retrying, i + 1)
        stored == getSongBySyncId(table, InputSyncId)
        retrying == servicesToRetry(stored, t)
    IN IF retrying = <<>>
       THEN [table |-> table, data |-> stored, retried |-> {}]
       ELSE LET r == processResults(table, stored, retrying, 1) IN
            [table |-> upsertSongTable(r["table"], r["dbItem"]),
             data |-> upsertSongResult(r["table"], r["dbItem"]),
             retried |-> {retrying[i] : i \in 1..Len(retrying)}]

\* a song is stored; calc counts the requests, and for each catalog the
\* requests whose retry step searched it and whether a search of it succeeded
InitRequests ==
    /\ db \in {[id \in SyncIds |-> IF id = InputSyncId THEN r ELSE NoRow] :
                  r \in StoredRecords \ {NoRow}}
    /\ now = 0
    /\ flights = {}
    /\ fl = IdleFrame
    /\ svc = [s \in ServiceNames |-> IdleCall]
    /\ callers = [c \in Callers |-> IdleCaller]
    /\ hist = ZeroHist
    /\ locks = EmptyMap
    /\ ups = [i \in Upserts |-> IdleUpsert]
    /\ calc = [op |-> "requests", requests |-> 0,
               retried |-> [s \in ServiceNames |-> 0],
               succeeded |-> {}]

\* convertSong(InputSong, desiredService) from its call to its return, when
\* the record that checkDatabaseForExistingConversion returns has the ID of
\* the desired catalog
ConvertFromStore(desiredService, outcomes) ==
    /\ calc["op"] = "requests"
    /\ calc["requests"] < MaxRequests
    /\ \E r \in {checkDatabaseForExistingConversion(db, outcomes, now)} :
          /\ hasDesired(r["data"], desiredService)
          /\ db' = r["table"]
          /\ calc' = [calc EXCEPT
                         !["requests"] = @ + 1,
                         !["retried"] = [s \in ServiceNames |->
                                            IF s \in r["retried"] THEN @[s] + 1 ELSE @[s]],
                         !["succeeded"] = @ \cup {s \in r["retried"] :
                                                     outcomes[s]["kind"] # "throw"}]
    /\ UNCHANGED <<now, flights, fl, svc, callers, hist, locks, ups>>

\* the cooldown passes
CooldownPasses ==
    /\ calc["op"] = "requests"
    /\ now < MaxClock
    /\ now' = now + 1
    /\ UNCHANGED <<db, flights, fl, svc, callers, hist, locks, ups, calc>>

NextRequests ==
    \/ \E desiredService \in ServiceNames, outcomes \in [ServiceNames -> AdapterOutcomes] :
          ConvertFromStore(desiredService, outcomes)
    \/ CooldownPasses

SpecRequests == InitRequests /\ [][NextRequests]_vars

\* C35: over a sequence of requests for one stored record, the retry step of
\* checkDatabaseForExistingConversion searches a catalog whose search fails
\* every time in at most 3 requests.
C35_DeferredRetriesBounded ==
    calc["op"] = "requests" =>
        \A s \in ServiceNames :
            s \notin calc["succeeded"] => calc["retried"][s] <= MAX_ATTEMPTS

\* the retry step has searched youtube music in more than 3 requests, every
\* search failed, and the stored attempt count is still that of the first
\* failure
C35_Witness ==
    /\ calc["op"] = "requests"
    /\ calc["retried"]["ytmusic"] > MAX_ATTEMPTS
    /\ "ytmusic" \notin calc["succeeded"]
    /\ db[InputSyncId] = storedAfter(<<Exact, Exact, FetchFailed>>)
    /\ ErrorsOf(getSongBySyncId(db, InputSyncId))["ytmusic"]["attempts"] = 1

-----------------------------------------------------------------------------
(* A fan-out in which no catalog finds the song (specification Spec) *)

\* every search of the fan-out has failed with an error that is not retried
AllNotFound ==
    \A s \in ServiceNames :
        /\ svc[s]["st"] = "done"
        /\ ~svc[s]["result"]["success"]
        /\ svc[s]["result"]["error"]["errorType"] \in {"not_found", "invalid_data"}

\* C36: when nothing usable is stored and every search of the first fan-out
\* of a call fails with not_found or invalid_data, the call throws after that
\* fan-out: the retry wrapper does not start another execution, and each
\* catalog has been searched once.
C36_NotFoundNotRepeated ==
    [][(AggregateNone /\ AllNotFound /\ fl["attempt"] = 1) =>
          /\ fl'["pc"] = "done"
          /\ fl'["outcome"]["kind"] = "throw"
          /\ hist'["fanouts"] = 1]_vars

\* nothing was stored, every search of the first fan-out failed with
\* not_found, and the retry wrapper has started the second execution
C36_Witness ==
    /\ AllNotFound
    /\ hist["fanouts"] = 1
    /\ hist["firstItem"] = NoRow
    /\ fl["pc"] = "lookup"
    /\ fl["attempt"] = 2
    /\ fl["lastError"] # NoRow

-----------------------------------------------------------------------------
(* Upserts whose task can throw at each of its steps (specification          *)
(* SpecLock): the read of the row fails, domainToInsert rejects the merged   *)
(* song (the title and the artists, which the entities of the model leave    *)
(* out, are missing), or the write fails.                                    *)

LockInputs ==
    {[syncId |-> id, externalIds |-> e] :
        id \in SyncIds, e \in {EmptyMap, [k \in {"Spotify"} |-> "i2"]}}

\* fetchRowBySyncId throws: the store answers the read with an error
ReadError(i) ==
    /\ ups[i]["st"] = "locked"
    /\ ups' = [ups EXCEPT ![i]["st"] = "failed",
                          ![i]["result"] = Thrown(<<"Error", "fetching", "songs", "entity",
                                                    "by", "syncId">>)]
    /\ UNCHANGED <<db, locks, now, flights, fl, svc, callers, hist, calc>>

\* domainToInsert throws: the merged song does not pass the validation of
\* mapSongToInsert
InsertError(i) ==
    /\ ups[i]["st"] = "read"
    /\ ups' = [ups EXCEPT ![i]["st"] = "failed",
                          ![i]["merged"] = upsertMerge(ups[i]["existingRow"], ups[i]["newData"],
                                                       songMergeConfig),
                          ![i]["result"] = Thrown(<<"Song", "title", "is", "required", "for",
                                                    "upsert", "operations.">>)]
    /\ UNCHANGED <<db, locks, now, flights, fl, svc, callers, hist, calc>>

NextLock ==
    \/ \E i \in Upserts, songData \in LockInputs : RequestUpsert(i, songData)
    \/ \E i \in Upserts : AcquireLock(i)
    \/ \E i \in Upserts : ReadRow(i)
    \/ \E i \in Upserts : ReadError(i)
    \/ \E i \in Upserts : WriteRow(i)
    \/ \E i \in Upserts : InsertError(i)
    \/ \E i \in Upserts : WriteError(i)
    \/ \E i \in Upserts : ReleaseLock(i)

SpecLock == InitDb /\ [][NextLock]_vars

\* the task of call i has thrown
TaskThrew(i) == ups[i]["result"] # NoRow /\ ups[i]["result"]["kind"] = "throw"

\* call i is pending or running: it was made and withEntityLock has not
\* finished
InProgress(i) == ups[i]["st"] \in {"waiting", "locked", "read", "written", "failed"}

LockKeys == {createLockKey("songs", id) : id \in SyncIds}

\* C37: when the task of an upsert throws, at the read, at the validation or
\* at the write, the step that throws and the release that follows leave the
\* stored rows as they are, and the call ends with its lock released; a
\* waiting call whose earlier calls on the key have all ended, thrown or
\* not, is not blocked; and the lock map has no entry for a key on which no
\* call is pending or running.
C37_LockReleasedOnFailure ==
    /\ [](/\ \A i \in Upserts : ups[i]["st"] = "done" => ups[i]["released"]
          /\ \A j \in Upserts :
                (/\ ups[j]["st"] = "waiting"
                 /\ \A i \in Upserts : (i < j /\ SameKey(i, j)) => ups[i]["st"] = "done")
                => previousSafeResolved(j)
          /\ \A key \in LockKeys :
                (\A i \in Upserts : InProgress(i) => lockKeyOf(i) # key) => ~Has(locks, key))
    /\ [][\A i \in Upserts :
            /\ (ups[i]["st"] # "failed" /\ ups'[i]["st"] = "failed") => db' = db
            /\ (ups[i]["st"] = "failed" /\ ups'[i]["st"] # "failed") =>
                  /\ db' = db
                  /\ ups'[i]["st"] = "done"
                  /\ ups'[i]["released"]]_vars

\* three upserts of one key: the task of the first threw at the read, that of
\* the second at the validation or the write, the third waited for the
\* second, wrote its row and ended, and the lock map is empty
C37_Witness ==
    /\ \A i \in Upserts : ups[i]["st"] = "done"
    /\ SameKey(1, 2) /\ SameKey(2, 3)
    /\ ups[2]["previous"] = 1
    /\ ups[3]["previous"] = 2
    /\ TaskThrew(1) /\ ups[1]["existingRow"] = NoRow /\ ups[1]["merged"] = NoRow
    /\ TaskThrew(2) /\ ups[2]["merged"] # NoRow
    /\ Succeeded(3)
    /\ RowHasIdsOf(3)
    /\ locks = EmptyMap

-----------------------------------------------------------------------------
(* One fan-out whose searches settle in any order (specification             *)
(* SpecFanout).  calc["order"] lists the catalogs in the order in which      *)
(* their searches settled.  The songs that the catalogs return differ in     *)
(* album, a keep_existing field, and in explicit, a prefer_new field.        *)

\* the song of a result as the catalog knows it
catalogSong(result) ==
    IF result["success"]
    THEN [result EXCEPT !["data"] = Spread(@, [album |-> result["service"],
                                               explicit |-> result["service"] # "spotify"])]
    ELSE result

InitFanout ==
    /\ db \in {[id \in SyncIds |-> IF id = InputSyncId THEN r ELSE NoRow] : r \in StoredRecords}
    /\ now = 0
    /\ flights = {}
    /\ fl = IdleFrame
    /\ svc = AllPending
    /\ callers = [c \in Callers |-> IdleCaller]
    /\ hist = ZeroHist
    /\ locks = EmptyMap
    /\ ups = [i \in Upserts |-> IdleUpsert]
    /\ calc = [op |-> "fanout", priorEntity |-> getSongBySyncId(db, InputSyncId),
               order |-> <<>>, aggregatedItem |-> NoRow]

\* the search of catalog s settles: invokeServiceMethod returns its result
SearchSettles(s, outcome) ==
    /\ calc["op"] = "fanout"
    /\ svc[s]["st"] = "pending"
    /\ svc' = [svc EXCEPT ![s] = [st |-> "done", attemptNumber |-> 0,
                                   result |-> catalogSong(resultOf(s, outcome, now))]]
    /\ calc' = [calc EXCEPT !["order"] = Append(@, s)]
    /\ UNCHANGED <<db, now, flights, fl, callers, hist, locks, ups>>

\* Promise.all has resolved: the results are folded into the aggregate, which
\* is upserted when there is one
AggregateFanout ==
    /\ calc["op"] = "fanout"
    /\ calc["aggregatedItem"] = NoRow
    /\ AllDone(ServiceNames)
    /\ \E agg \in {aggregate(calc["priorEntity"], fanoutResults, "song", now)} :
          /\ calc' = [calc EXCEPT !["aggregatedItem"] =
                         IF agg["item"] = NoRow THEN [none |-> TRUE] ELSE agg["item"]]
          /\ db' = IF agg["item"] = NoRow THEN db ELSE upsertSongTable(db, agg["item"])
    /\ UNCHANGED <<now, flights, fl, svc, callers, hist, locks, ups>>

NextFanout ==
    \/ \E s \in ServiceNames, outcome \in AdapterOutcomes : SearchSettles(s, outcome)
    \/ AggregateFanout

SpecFanout == InitFanout /\ [][NextFanout]_vars

\* the catalogs whose search succeeded, in the order applemusic, spotify,
\* ytmusic
Succeeded3 ==
    SelectSeq(<<"applemusic", "spotify", "ytmusic">>,
              LAMBDA s : svc[s]["st"] = "done" /\ svc[s]["result"]["success"])

\* the fan-out has built an aggregate
Aggregated == calc["op"] = "fanout" /\ calc["aggregatedItem"] \notin {NoRow, [none |-> TRUE]}

\* C38: the results of a fan-out are folded into the aggregate after all
\* searches have settled, in the order applemusic, spotify, ytmusic whatever
\* the order in which the searches settled: a keep_existing field that the
\* stored record lacks comes from the first catalog of that order that
\* succeeded, a prefer_new field from the last one, every catalog that
\* succeeded has its external ID in the aggregate and every catalog that
\* failed its error entry; the store is written only after all searches
\* have settled, and the row written has the same album and explicit flag.
C38_CompletionOrderIrrelevant ==
    /\ []((calc["op"] = "fanout" /\ calc["aggregatedItem"] # NoRow) =>
            /\ AllDone(ServiceNames)
            /\ Len(calc["order"]) = 3
            /\ (Succeeded3 = <<>> /\ calc["priorEntity"] = NoRow) <=> ~Aggregated)
    /\ []((Aggregated /\ Succeeded3 # <<>>) =>
            LET item == calc["aggregatedItem"]
                prior == calc["priorEntity"]
            IN /\ item["album"] = IF prior # NoRow /\ Has(prior, "album") THEN prior["album"]
                                  ELSE Succeeded3[1]
               /\ item["explicit"] = (Succeeded3[Len(Succeeded3)] # "spotify")
               /\ \A s \in ServiceNames :
                     IF svc[s]["result"]["success"]
                     THEN /\ hasDesired(item, s)
                          /\ s \notin DOMAIN ErrorsOf(item)
                     ELSE /\ s \in DOMAIN ErrorsOf(item)
                          /\ ErrorsOf(item)[s]["lastError"] = svc[s]["result"]["error"]["message"]
               /\ db[InputSyncId]["album"] = item["album"]
               /\ db[InputSyncId]["explicit"] = item["explicit"])
    /\ [][db' # db => (AllDone(ServiceNames) /\ svc' = svc)]_vars

\* the searches settled in the order ytmusic, spotify, applemusic, all three
\* returned a song, and the aggregate has the album of applemusic
C38_Witness ==
    /\ Aggregated
    /\ calc["order"] = <<"ytmusic", "spotify", "applemusic">>
    /\ Succeeded3 = <<"applemusic", "spotify", "ytmusic">>
    /\ calc["aggregatedItem"]["album"] = "applemusic"
    /\ calc["aggregatedItem"]["explicit"]
    /\ db[InputSyncId]["album"] = "applemusic"


-----------------------------------------------------------------------------
(* Conversions of songs, albums and artists, and the shortcodes they store   *)
(* (specification SpecKinds).  calc holds the tables songs, albums and       *)
(* artists; every row is the row of the entity InputSyncId of that kind.     *)
(* The lists of songs, albums and tracks of an album or an artist are left   *)
(* out of the entities.                                                      *)

EntityKinds == {"song", "album", "artist"}

TABLE_BY_TYPE == [song |-> "songs", album |-> "albums", artist |-> "artists"]

\* the columns of the albums and artists tables that are copied as they are
PlainAlbumColumns ==
    {"syncId", "shortcode", "title", "description", "artists", "releaseDate", "imageUrl",
     "totalTracks", "duration", "label", "genres", "explicit"}

PlainArtistColumns == {"syncId", "shortcode", "name", "imageUrl", "genre"}

\* the entity getAlbumById builds for a catalog's album: every adapter sets
\* totalTracks
adapterAlbum(serviceName, id, syncId) ==
    [syncId |-> syncId,
     title |-> <<"album">>,
     artists |-> <<"artist">>,
     externalIds |-> [k \in {SyncFMExternalIdMapToDesiredService[serviceName]} |-> id],
     totalTracks |-> 2]

\* the entity getArtistById builds for a catalog's artist: syncId, name,
\* imageUrl, externalIds and genre (undefined on YouTube Music); no adapter
\* sets albums
adapterArtist(serviceName, id, syncId) ==
    LET artist == [syncId |-> syncId,
                   name |-> <<"artist">>,
                   externalIds |-> [k \in {SyncFMExternalIdMapToDesiredService[serviceName]} |-> id]]
    IN IF serviceName = "ytmusic" THEN artist
       ELSE SetField(artist, "genre", <<"pop">>)

\* the result of invokeServiceMethod(serviceName, inputInfo, inputType) for one
\* outcome of the search that is not retried at once
kindResult(serviceName, inputType, inputInfo, outcome, t) ==
    LET result == invokeServiceMethod(serviceName, inputInfo, 2, outcome, t)["result"]
        found == IF inputType = "album"
                 THEN adapterAlbum(serviceName, outcome["id"], inputInfo["syncId"])
                 ELSE adapterArtist(serviceName, outcome["id"], inputInfo["syncId"])
    IN IF result["success"] /\ inputType # "song"
       THEN [result EXCEPT !["data"] = normalizedData(found, inputInfo)]
       ELSE result

\* domainToInsert(table, entity)
domainToInsert(inputType, entity) ==
    IF inputType = "song" THEN mapSongToInsert(entity)
    ELSE Spread(Restrict(entity, IF inputType = "album" THEN PlainAlbumColumns
                                 ELSE PlainArtistColumns),
           [externalIds |-> externalIdsToJson(GetOr(entity, "externalIds", EmptyMap)),
            conversionErrors |-> serializeConversionErrors(GetOr(entity, "conversionErrors", EmptyMap)),
            conversionWarnings |-> serializeConversionWarnings(GetOr(entity, "conversionWarnings", EmptyMap))])

\* rowToDomain(table, row)
rowToDomain(inputType, row) ==
    IF inputType = "song" THEN mapSongRow(row)
    ELSE LET ids == SetField(Restrict(row, IF inputType = "album" THEN PlainAlbumColumns
                                           ELSE PlainArtistColumns),
                             "externalIds", castExternalIds(row["externalIds"]))
             errors == deserializeConversionErrors(row["conversionErrors"])
             warnings == deserializeConversionWarnings(row["conversionWarnings"])
             withErrors == IF DOMAIN errors # {} THEN SetField(ids, "conversionErrors", errors)
                           ELSE ids
         IN IF DOMAIN warnings # {} THEN SetField(withErrors, "conversionWarnings", warnings)
            ELSE withErrors

\* upsertSong, upsertAlbum or upsertArtist of upsertAggregatedEntity: the row
\* that upsertEntity writes when it reads existingRow
upsertAggregatedEntity(existingRow, entity, inputType) ==
    IF inputType = "song"
    THEN upsertPayload(existingRow, upsertSongInput(entity), songMergeConfig)
    ELSE domainToInsert(inputType,
            IF existingRow # NoRow
            THEN mergeEntityData(rowToDomain(inputType, existingRow), entity, inputType)
            ELSE entity)

\* the outcomes of a search in this specification: the entity with the
\* expected syncId, or nothing
KindOutcomes == {[kind |-> "exact", id |-> "i1"],
                 [kind |-> "throw", message |-> <<"No", "song", "found">>]}

InitKinds ==
    /\ Quiet
    /\ calc = [op |-> "kinds",
               tables |-> [t \in {"songs", "albums", "artists"} |-> NoRow],
               convertedKinds |-> {}]

\* executeUnifiedConvert of the entity InputSyncId of kind inputType, for a
\* target that the stored record lacks: the fan-out, the fold of the results
\* and the upsert.  A conversion in which every search fails and nothing is
\* stored throws and leaves the store as it is.
ConvertEntity(inputType, desiredService, outcomes) ==
    /\ calc["op"] = "kinds"
    /\ \E row \in {calc["tables"][TABLE_BY_TYPE[inputType]]} :
       \E prior \in {IF row = NoRow THEN NoRow ELSE rowToDomain(inputType, row)} :
          /\ prior # NoRow => ~hasDesired(prior, desiredService)
          /\ \E agg \in {aggregate(prior,
                                   [i \in 1..Len(SUPPORTED_SERVICES) |->
                                       kindResult(SUPPORTED_SERVICES[i], inputType,
                                                  [syncId |-> InputSyncId], outcomes[i], now)],
                                   inputType, now)} :
                /\ agg["item"] # NoRow
                /\ calc' = [calc EXCEPT
                              !["tables"][TABLE_BY_TYPE[inputType]] =
                                  upsertAggregatedEntity(row, agg["item"], inputType),
                              !["convertedKinds"] = @ \cup {inputType}]
    /\ UNCHANGED machine

NextKinds ==
    \E inputType \in EntityKinds, desiredService \in ServiceNames,
       outcomes \in [1..Len(SUPPORTED_SERVICES) -> KindOutcomes] :
        ConvertEntity(inputType, desiredService, outcomes)

SpecKinds == InitKinds /\ [][NextKinds]_vars

\* fetchRowByShortcode(table, shortcode) on the three tables
fetchRowByShortcodeIn(tables, tableName, shortcode) ==
    IF tables[tableName] # NoRow /\ GetOr(tables[tableName], "shortcode", <<>>) = shortcode
    THEN tables[tableName] ELSE NoRow

\* resolveShortcode on the three tables: the entity of the row that carries
\* the shortcode in the table of its prefix, NoRow (null) when there is none
resolveShortcodeIn(tables, shortcode) ==
    LET shortcodeType == prefixMapReverse(SubSeq(shortcode, 1, 2))
    IN IF shortcodeType = ""
       THEN Thrown(<<"Invalid", "shortcode", "prefix.">>)
       ELSE LET row == fetchRowByShortcodeIn(tables, TABLE_BY_TYPE[shortcodeType], shortcode)
            IN IF row = NoRow THEN Returned(NoRow)
               ELSE Returned(rowToDomain(shortcodeType, row))

\* the row of kind inputType carries the shortcode of its kind, and
\* resolveShortcode of the stored shortcode returns its entity
ShortcodeOfKind(inputType) ==
    LET row == calc["tables"][TABLE_BY_TYPE[inputType]]
    IN row # NoRow =>
          /\ Has(row, "shortcode")
          /\ row["shortcode"] = ShortcodeTable[inputType, row["syncId"]]
          /\ prefixMapReverse(SubSeq(row["shortcode"], 1, 2)) = inputType
          /\ resolveShortcodeIn(calc["tables"], row["shortcode"])
                = Returned(rowToDomain(inputType, row))

\* C39: every record that a conversion stored, a song, an album or an artist,
\* carries the shortcode createShortcode(syncId, kind) of the kind of its
\* table, and resolveShortcode of that shortcode goes to that table and
\* returns the record.
C39_ShortcodeKindConsistent ==
    calc["op"] = "kinds" => \A inputType \in EntityKinds : ShortcodeOfKind(inputType)

\* a conversion has stored an artist
C39_Witness ==
    /\ calc["op"] = "kinds"
    /\ "artist" \in calc["convertedKinds"]
    /\ calc["tables"]["artists"] # NoRow
    /\ calc["tables"]["artists"]["shortcode"] = ShortcodeTable["song", InputSyncId]
    /\ resolveShortcodeIn(calc["tables"], calc["tables"]["artists"]["shortcode"]) = Returned(NoRow)

=============================================================================
